---------------------------- MODULE Spec2Model ----------------------------
(***************************************************************************)
(* A model of the SSML builder: the root SSMLBuilder, its VoiceBuilder     *)
(* sections, the container elements (p, s, lang), the leaf elements and    *)
(* the rendering of all of them to text.                                   *)
(*                                                                         *)
(* Strings are sequences of one-character strings, so that escaping,       *)
(* attribute quoting and concatenation are computed character by           *)
(* character, as the code's template strings and replace() calls do.       *)
(* An optional value (a TypeScript `x?: string`) is <<>> when undefined    *)
(* and <<v>> when it holds v.                                              *)
(***************************************************************************)
EXTENDS Integers, Sequences, FiniteSets, TLC

(***************************************************************************)
(* Literal pieces of the templates in the render()/build() methods.        *)
(***************************************************************************)
L_amp == <<"&", "a", "m", "p", ";">>
L_lt == <<"&", "l", "t", ";">>
L_gt == <<"&", "g", "t", ";">>
L_quot == <<"&", "q", "u", "o", "t", ";">>
L_apos == <<"&", "a", "p", "o", "s", ";">>
DefaultVersion == <<"1", ".", "0">>
DefaultXmlns ==
    <<"h", "t", "t", "p", ":", "/", "/", "w", "w", "w", ".", "w", "3", ".", "o", "r", "g", "/",
      "2", "0", "0", "1", "/", "1", "0", "/", "s", "y", "n", "t", "h", "e", "s", "i", "s">>
DefaultXmlnsMstts ==
    <<"h", "t", "t", "p", "s", ":", "/", "/", "w", "w", "w", ".", "w", "3", ".", "o", "r", "g",
      "/", "2", "0", "0", "1", "/", "m", "s", "t", "t", "s">>
L_speakOpen == <<"<", "s", "p", "e", "a", "k", " ">>
L_speakClose == <<"\n", "<", "/", "s", "p", "e", "a", "k", ">">>
L_indent == <<"\n", " ", " ", " ", " ">>
L_versionAttr == <<"v", "e", "r", "s", "i", "o", "n", "=", "\"">>
L_xmlnsAttr == <<"x", "m", "l", "n", "s", "=", "\"">>
L_xmlnsMsttsAttr == <<"x", "m", "l", "n", "s", ":", "m", "s", "t", "t", "s", "=", "\"">>
L_xmlLangAttr == <<"x", "m", "l", ":", "l", "a", "n", "g", "=", "\"">>
L_nameAttr == <<"n", "a", "m", "e", "=", "\"">>
L_effectAttr == <<"e", "f", "f", "e", "c", "t", "=", "\"">>
L_voiceOpen == <<"<", "v", "o", "i", "c", "e", " ">>
L_voiceClose == <<"<", "/", "v", "o", "i", "c", "e", ">">>
L_pOpen == <<"<", "p", ">">>
L_pClose == <<"<", "/", "p", ">">>
L_sOpen == <<"<", "s", ">">>
L_sClose == <<"<", "/", "s", ">">>
L_langOpen == <<"<", "l", "a", "n", "g", " ", "x", "m", "l", ":", "l", "a", "n", "g", "=", "\"">>
L_langClose == <<"<", "/", "l", "a", "n", "g", ">">>
L_breakBare == <<"<", "b", "r", "e", "a", "k", "/", ">">>
L_breakOpen == <<"<", "b", "r", "e", "a", "k", " ">>
L_strengthAttr == <<"s", "t", "r", "e", "n", "g", "t", "h", "=", "\"">>
L_timeAttr == <<"t", "i", "m", "e", "=", "\"">>
L_selfClose == <<"/", ">">>
L_emphasisOpen == <<"<", "e", "m", "p", "h", "a", "s", "i", "s">>
L_levelAttr == <<" ", "l", "e", "v", "e", "l", "=", "\"">>
L_emphasisClose == <<"<", "/", "e", "m", "p", "h", "a", "s", "i", "s", ">">>
L_bgOpen ==
    <<"<", "m", "s", "t", "t", "s", ":", "b", "a", "c", "k", "g", "r", "o", "u", "n", "d", "a",
      "u", "d", "i", "o", " ">>
L_srcAttr == <<"s", "r", "c", "=", "\"">>
L_volumeAttr == <<"v", "o", "l", "u", "m", "e", "=", "\"">>
L_fadeinAttr == <<"f", "a", "d", "e", "i", "n", "=", "\"">>
L_fadeoutAttr == <<"f", "a", "d", "e", "o", "u", "t", "=", "\"">>
L_vcOpen ==
    <<"<", "m", "s", "t", "t", "s", ":", "v", "o", "i", "c", "e", "c", "o", "n", "v", "e", "r",
      "s", "i", "o", "n", " ", "u", "r", "l", "=", "\"">>
L_errBuild ==
    <<"V", "o", "i", "c", "e", "B", "u", "i", "l", "d", "e", "r", " ", "m", "u", "s", "t", " ",
      "b", "e", " ", "c", "r", "e", "a", "t", "e", "d", " ", "f", "r", "o", "m", " ", "S", "S",
      "M", "L", "B", "u", "i", "l", "d", "e", "r", " ", "t", "o", " ", "u", "s", "e", " ", "b",
      "u", "i", "l", "d", "(", ")">>
L_errVoice ==
    <<"V", "o", "i", "c", "e", "B", "u", "i", "l", "d", "e", "r", " ", "m", "u", "s", "t", " ",
      "b", "e", " ", "c", "r", "e", "a", "t", "e", "d", " ", "f", "r", "o", "m", " ", "S", "S",
      "M", "L", "B", "u", "i", "l", "d", "e", "r", " ", "t", "o", " ", "c", "h", "a", "i", "n",
      " ", "v", "o", "i", "c", "e", "s">>

L_silenceOpen ==
    <<"<", "m", "s", "t", "t", "s", ":", "s", "i", "l", "e", "n", "c", "e", " ", "t", "y", "p",
      "e", "=", "\"">>
L_silenceValue == <<"\"", " ", "v", "a", "l", "u", "e", "=", "\"">>
L_prosodyOpen == <<"<", "p", "r", "o", "s", "o", "d", "y">>
L_prosodyClose == <<"<", "/", "p", "r", "o", "s", "o", "d", "y", ">">>
L_pitchAttr == <<"p", "i", "t", "c", "h", "=", "\"">>
L_contourAttr == <<"c", "o", "n", "t", "o", "u", "r", "=", "\"">>
L_rangeAttr == <<"r", "a", "n", "g", "e", "=", "\"">>
L_rateAttr == <<"r", "a", "t", "e", "=", "\"">>
L_expressAsOpen ==
    <<"<", "m", "s", "t", "t", "s", ":", "e", "x", "p", "r", "e", "s", "s", "-", "a", "s", " ">>
L_expressAsClose ==
    <<"<", "/", "m", "s", "t", "t", "s", ":", "e", "x", "p", "r", "e", "s", "s", "-", "a", "s",
      ">">>
L_styleAttr == <<"s", "t", "y", "l", "e", "=", "\"">>
L_styledegreeAttr == <<"s", "t", "y", "l", "e", "d", "e", "g", "r", "e", "e", "=", "\"">>
L_roleAttr == <<"r", "o", "l", "e", "=", "\"">>
L_sayAsOpen == <<"<", "s", "a", "y", "-", "a", "s", " ">>
L_sayAsClose == <<"<", "/", "s", "a", "y", "-", "a", "s", ">">>
L_interpretAsAttr == <<"i", "n", "t", "e", "r", "p", "r", "e", "t", "-", "a", "s", "=", "\"">>
L_formatAttr == <<"f", "o", "r", "m", "a", "t", "=", "\"">>
L_detailAttr == <<"d", "e", "t", "a", "i", "l", "=", "\"">>
L_bookmarkOpen ==
    <<"<", "b", "o", "o", "k", "m", "a", "r", "k", " ", "m", "a", "r", "k", "=", "\"">>
L_audioOpen == <<"<", "a", "u", "d", "i", "o", " ", "s", "r", "c", "=", "\"">>
L_audioClose == <<"<", "/", "a", "u", "d", "i", "o", ">">>
L_subOpen == <<"<", "s", "u", "b", " ", "a", "l", "i", "a", "s", "=", "\"">>
L_subClose == <<"<", "/", "s", "u", "b", ">">>
L_phonemeOpen ==
    <<"<", "p", "h", "o", "n", "e", "m", "e", " ", "a", "l", "p", "h", "a", "b", "e", "t", "=",
      "\"">>
L_phonemePh == <<"\"", " ", "p", "h", "=", "\"">>
L_phonemeClose == <<"<", "/", "p", "h", "o", "n", "e", "m", "e", ">">>
L_lexiconOpen == <<"<", "l", "e", "x", "i", "c", "o", "n", " ", "u", "r", "i", "=", "\"">>
L_mathOpen ==
    <<"<", "m", "a", "t", "h", " ", "x", "m", "l", "n", "s", "=", "\"", "h", "t", "t", "p",
      ":", "/", "/", "w", "w", "w", ".", "w", "3", ".", "o", "r", "g", "/", "1", "9", "9", "8",
      "/", "M", "a", "t", "h", "/", "M", "a", "t", "h", "M", "L", "\"", ">">>
L_mathClose == <<"<", "/", "m", "a", "t", "h", ">">>
L_audioDurationOpen ==
    <<"<", "m", "s", "t", "t", "s", ":", "a", "u", "d", "i", "o", "d", "u", "r", "a", "t", "i",
      "o", "n", " ", "v", "a", "l", "u", "e", "=", "\"">>
L_ttsEmbeddingOpen ==
    <<"<", "m", "s", "t", "t", "s", ":", "t", "t", "s", "e", "m", "b", "e", "d", "d", "i", "n",
      "g", " ", "s", "p", "e", "a", "k", "e", "r", "P", "r", "o", "f", "i", "l", "e", "I", "d",
      "=", "\"">>
L_ttsEmbeddingClose ==
    <<"<", "/", "m", "s", "t", "t", "s", ":", "t", "t", "s", "e", "m", "b", "e", "d", "d", "i",
      "n", "g", ">">>
L_visemeOpen ==
    <<"<", "m", "s", "t", "t", "s", ":", "v", "i", "s", "e", "m", "e", " ", "t", "y", "p", "e",
      "=", "\"">>
L_quoteGt == <<"\"", ">">>
L_quoteSelfClose == <<"\"", "/", ">">>

(***************************************************************************)
(* Sample argument values the environment passes to the builder.           *)
(***************************************************************************)
T_test ==
    <<"H", "e", "l", "l", "o", " ", "&", " ", "g", "o", "o", "d", "b", "y", "e", " ", "<", " ",
      ">", " ", "\"", " ", "'">>
T_testEscaped ==
    <<"H", "e", "l", "l", "o", " ", "&", "a", "m", "p", ";", " ", "g", "o", "o", "d", "b", "y",
      "e", " ", "&", "l", "t", ";", " ", "&", "g", "t", ";", " ", "&", "q", "u", "o", "t", ";",
      " ", "&", "a", "p", "o", "s", ";">>
T_plain == <<"H", "i">>
T_specials == <<"a", "&", "<", ">", "\"", "'">>
\* attribute values and math payloads: plain ones, and ones that hold reserved characters
A_m1 == <<"m", "1">>
A_alias == <<"a", "n", "d">>
A_src == <<"a", ".", "w", "a", "v">>
A_ipa == <<"i", "p", "a">>
A_ph == <<"p", "h">>
X_quote == <<"a", "\"", "b">>
X_inject == <<"\"", "/", ">", "<", "x", " ", "y", "=", "\"">>
X_amp == <<"A", "&", "T">>
X_lt == <<"a", "<", "b">>
M_ok == <<"<", "m", "i", ">", "x", "<", "/", "m", "i", ">">>
M_open == <<"<", "m", "i", ">">>
\* values no documentation allows: a duration out of range, a name outside every
\* enumerated set, something that is not a URL
D_huge == <<"9", "9", "9", "9", "s">>
X_enum == <<"z", "z">>
U_bad == <<":", ":">>
\* the value a callback throws
E_thrown == <<"b", "o", "o", "m">>
T_amp == <<"A", "&", "B">>
N_Ava == <<"e", "n", "-", "U", "S", "-", "A", "v", "a", "N", "e", "u", "r", "a", "l">>
N_Andrew ==
    <<"e", "n", "-", "U", "S", "-", "A", "n", "d", "r", "e", "w", "N", "e", "u", "r", "a", "l">>
E_car == <<"e", "q", "_", "c", "a", "r">>
Lang_enUS == <<"e", "n", "-", "U", "S">>
Lang_esES == <<"e", "s", "-", "E", "S">>
U_bg1 ==
    <<"h", "t", "t", "p", "s", ":", "/", "/", "e", "x", "a", "m", "p", "l", "e", ".", "c", "o",
      "m", "/", "a", "u", "d", "i", "o", ".", "m", "p", "3">>
U_bg2 == <<"b", ".", "m", "p", "3">>
V_half == <<"0", ".", "5">>
D_2000ms == <<"2", "0", "0", "0", "m", "s">>
D_500ms == <<"5", "0", "0", "m", "s">>
U_vc1 ==
    <<"h", "t", "t", "p", "s", ":", "/", "/", "e", "x", "a", "m", "p", "l", "e", ".", "c", "o",
      "m", "/", "v", "o", "i", "c", "e", ".", "j", "s", "o", "n">>
U_vc2 == <<"v", "2", ".", "j", "s", "o", "n">>
Lv_strong == <<"s", "t", "r", "o", "n", "g">>

(***************************************************************************)
(* Bounds of the model.                                                    *)
(***************************************************************************)
MaxObjs == 2        \* builder and container objects ever constructed
MaxEntries == 2     \* entries appended over all content lists together
MaxTextLen == 3     \* length of the texts enumerated for escapeXml

(***************************************************************************)
(* Optional values and JavaScript truthiness of `string | undefined`.      *)
(***************************************************************************)
None == <<>>
Some(v) == <<v>>
Truthy(o) == o # None /\ o[1] # <<>>

QUOTE == <<"\"">>

\* `${lit}${v}"` for an attribute template such as `name="${this.options.name}"`
attr(lit, v) == lit \o v \o QUOTE

RECURSIVE join(_, _)
\* Array.prototype.join
join(parts, sep) ==
    IF parts = <<>> THEN <<>>
    ELSE IF Len(parts) = 1 THEN parts[1]
    ELSE parts[1] \o sep \o join(Tail(parts), sep)

\* a push that inserts at the front (Array.prototype.unshift)
push_unshift(arr, e) == <<e>> \o arr

\* Array.prototype.push
push(arr, e) == Append(arr, e)

\* `if (cond) attrs.push(a)`
pushIf(attrs, cond, a) == IF cond THEN push(attrs, a) ELSE attrs

RECURSIVE Flatten(_, _, _)
\* the pieces ps[lo..hi] written one after the other
Flatten(ps, lo, hi) ==
    IF lo > hi THEN <<>>
    ELSE IF lo = hi THEN ps[lo]
    ELSE LET m == (lo + hi) \div 2 IN Flatten(ps, lo, m) \o Flatten(ps, m + 1, hi)

RECURSIVE replaceFrom(_, _, _, _)
\* s from position i on, with every occurrence of the character ch replaced by rep
replaceFrom(s, i, ch, rep) ==
    IF i > Len(s) THEN <<>>
    ELSE (IF s[i] = ch THEN rep ELSE <<s[i]>>) \o replaceFrom(s, i + 1, ch, rep)

\* String.prototype.replace(/ch/g, rep)
replaceAll(s, ch, rep) == replaceFrom(s, 1, ch, rep)

\* the five passes with the ampersand pass last instead of first
escapeXml_ampLast(text) ==
    replaceAll(replaceAll(replaceAll(replaceAll(replaceAll(text,
        "<", L_lt), ">", L_gt), "\"", L_quot), "'", L_apos), "&", L_amp)

\* SSMLElement.escapeXml: five passes, ampersand first
escapeXml(text) ==
    replaceAll(replaceAll(replaceAll(replaceAll(replaceAll(text,
        "&", L_amp), "<", L_lt), ">", L_gt), "\"", L_quot), "'", L_apos)

\* an escapeXml that leaves alone each "&" that already starts one of the five entities
utils_escapeXml_idempotent(text) ==
    LET startsEntity(i) ==
            \E e \in {L_amp, L_lt, L_gt, L_quot, L_apos} :
                i + Len(e) - 1 <= Len(text) /\ SubSeq(text, i, i + Len(e) - 1) = e
        amp == Flatten([i \in 1..Len(text) |->
                           IF text[i] = "&" /\ ~startsEntity(i) THEN L_amp ELSE <<text[i]>>],
                       1, Len(text))
    IN  replaceAll(replaceAll(replaceAll(replaceAll(amp,
            "<", L_lt), ">", L_gt), "\"", L_quot), "'", L_apos)

\* escapeXml of utils/xml.ts, the same five passes
utils_escapeXml(text) ==
    replaceAll(replaceAll(replaceAll(replaceAll(replaceAll(text,
        "&", L_amp), "<", L_lt), ">", L_gt), "\"", L_quot), "'", L_apos)

\* the validation helpers of utils/xml.ts; no constructor and no render() calls them
S_dB == <<"d", "B">>
S_ms == <<"m", "s">>
S_silent == <<"s", "i", "l", "e", "n", "t">>
S_xsoft == <<"x", "-", "s", "o", "f", "t">>
S_soft == <<"s", "o", "f", "t">>
S_medium == <<"m", "e", "d", "i", "u", "m">>
S_loud == <<"l", "o", "u", "d">>
S_xloud == <<"x", "-", "l", "o", "u", "d">>
Digits == {"0", "1", "2", "3", "4", "5", "6", "7", "8", "9"}

\* /^\d+$/
allDigits(s) == Len(s) > 0 /\ \A i \in 1..Len(s) : s[i] \in Digits
\* /^\d+(\.\d+)?$/
isNumber(s) ==
    \/ allDigits(s)
    \/ \E k \in 2..(Len(s) - 1) :
           s[k] = "." /\ allDigits(SubSeq(s, 1, k - 1)) /\ allDigits(SubSeq(s, k + 1, Len(s)))
\* /^[+-]?\d+(\.\d+)?$/
isSignedNumber(s) == isNumber(s) \/ (Len(s) > 0 /\ s[1] \in {"+", "-"} /\ isNumber(Tail(s)))
endsWith(s, suf) == Len(s) >= Len(suf) /\ SubSeq(s, Len(s) - Len(suf) + 1, Len(s)) = suf
dropLast(s, n) == SubSeq(s, 1, Len(s) - n)

\* ['x-weak', 'weak', 'medium', 'strong', 'x-strong'].includes(value)
isValidBreakStrength(value) ==
    value \in {<<"x", "-", "w", "e", "a", "k">>, <<"w", "e", "a", "k">>, S_medium,
               <<"s", "t", "r", "o", "n", "g">>, <<"x", "-", "s", "t", "r", "o", "n", "g">>}

\* /^\d+(\.\d+)?(ms|s)$/.test(value)
isValidDuration(value) ==
    \E suf \in {S_ms, <<"s">>} : endsWith(value, suf) /\ isNumber(dropLast(value, Len(suf)))

\* /^[+-]?\d+(\.\d+)?dB$/.test(value) || /^\d+(\.\d+)?%?$/.test(value)
\*     || [ 'silent', ... ].includes(value)
isValidVolume(value) ==
    \/ endsWith(value, S_dB) /\ isSignedNumber(dropLast(value, 2))
    \/ isNumber(value) \/ (endsWith(value, <<"%">>) /\ isNumber(dropLast(value, 1)))
    \/ value \in {S_silent, S_xsoft, S_soft, S_medium, S_loud, S_xloud}

(***************************************************************************)
(* Leaf elements.  An entry of a content list is a record: a raw string    *)
(* [kind |-> "text"], a reference to a container object [kind |-> "ref"],  *)
(* or a leaf element with its constructor arguments.                       *)
(***************************************************************************)
TextEntry(t) == [kind |-> "text", text |-> t]
Ref(id) == [kind |-> "ref", id |-> id]

\* new BreakElement(options)
BreakElement(options) == [kind |-> "break", options |-> options]
\* new EmphasisElement(text, level)
EmphasisElement(text, level) == [kind |-> "emphasis", text |-> text, level |-> level]

\* a break that writes its time before its strength
BreakElement_render_timeFirst(e) ==
    IF e.options = None THEN L_breakBare
    ELSE LET o == e.options[1]
             a1 == pushIf(<<>>, Truthy(o.time), attr(L_timeAttr, o.time[1]))
             a2 == pushIf(a1, Truthy(o.strength), attr(L_strengthAttr, o.strength[1]))
         IN  IF Len(a2) > 0 THEN L_breakOpen \o join(a2, <<" ">>) \o L_selfClose
             ELSE L_breakBare

BreakElement_render(e) ==
    IF e.options = None THEN L_breakBare
    ELSE LET o == e.options[1]
             a1 == pushIf(<<>>, Truthy(o.strength), attr(L_strengthAttr, o.strength[1]))
             a2 == pushIf(a1, Truthy(o.time), attr(L_timeAttr, o.time[1]))
         IN  IF Len(a2) > 0 THEN L_breakOpen \o join(a2, <<" ">>) \o L_selfClose
             ELSE L_breakBare

\* an emphasis that writes its level whenever one was given: level !== undefined
EmphasisElement_render_ifDefined(e) ==
    LET levelAttr == IF e.level # None THEN L_levelAttr \o e.level[1] \o QUOTE ELSE <<>>
    IN  L_emphasisOpen \o levelAttr \o <<">">> \o escapeXml(e.text) \o L_emphasisClose

EmphasisElement_render(e) ==
    LET levelAttr == IF Truthy(e.level) THEN L_levelAttr \o e.level[1] \o QUOTE ELSE <<>>
    IN  L_emphasisOpen \o levelAttr \o <<">">> \o escapeXml(e.text) \o L_emphasisClose

\* new SilenceElement(options), options = { type, value }
SilenceElement(options) == [kind |-> "silence", options |-> options]
\* new ProsodyElement(text, options); the options object is the sequence of its
\* <<key, value>> properties in the order the caller wrote them
ProsodyElement(text, options) == [kind |-> "prosody", text |-> text, options |-> options]
\* new ExpressAsElement(text, options), options = { style, styledegree?, role? }
ExpressAsElement(text, options) == [kind |-> "expressAs", text |-> text, options |-> options]
\* new SayAsElement(text, options), options = { interpretAs, format?, detail? }
SayAsElement(text, options) == [kind |-> "sayAs", text |-> text, options |-> options]
BookmarkElement(mark) == [kind |-> "bookmark", mark |-> mark]
AudioElement(src, fallbackText) == [kind |-> "audio", src |-> src, fallbackText |-> fallbackText]
SubElement(original, alias) == [kind |-> "sub", original |-> original, alias |-> alias]
\* new PhonemeElement(text, options), options = { alphabet, ph }
PhonemeElement(text, options) == [kind |-> "phoneme", text |-> text, options |-> options]
LexiconElement(uri) == [kind |-> "lexicon", uri |-> uri]
MathElement(mathML) == [kind |-> "math", mathML |-> mathML]
AudioDurationElement(value) == [kind |-> "audioDuration", value |-> value]
TTSEmbeddingElement(speakerProfileId, text) ==
    [kind |-> "ttsEmbedding", speakerProfileId |-> speakerProfileId, text |-> text]
VisemeElement(type) == [kind |-> "viseme", type |-> type]

\* o.k for an object literal written as a sequence of <<key, value>> properties:
\* undefined when the key is absent, the last value when it is written twice
Prop(o, k) ==
    LET I == {i \in 1..Len(o) : o[i][1] = k}
    IN  IF I = {} THEN None ELSE Some(o[CHOOSE i \in I : \A j \in I : j <= i][2])

SilenceElement_render(e) ==
    L_silenceOpen \o e.options.type \o L_silenceValue \o e.options.value \o L_quoteSelfClose

\* a prosody element that writes its attributes in the order the caller listed them
ProsodyElement_render_callerOrder(e) ==
    LET lit(k) == CASE k = "pitch" -> L_pitchAttr
                    [] k = "contour" -> L_contourAttr
                    [] k = "range" -> L_rangeAttr
                    [] k = "rate" -> L_rateAttr
                    [] k = "volume" -> L_volumeAttr
        attrs == Flatten([i \in 1..Len(e.options) |->
                             IF e.options[i][2] # <<>>
                             THEN <<attr(lit(e.options[i][1]), e.options[i][2])>>
                             ELSE <<>>], 1, Len(e.options))
        attrsStr == IF Len(attrs) > 0 THEN <<" ">> \o join(attrs, <<" ">>) ELSE <<>>
    IN  L_prosodyOpen \o attrsStr \o <<">">> \o escapeXml(e.text) \o L_prosodyClose

ProsodyElement_render(e) ==
    LET pitch == Prop(e.options, "pitch")
        contour == Prop(e.options, "contour")
        range == Prop(e.options, "range")
        rate == Prop(e.options, "rate")
        volume == Prop(e.options, "volume")
        a1 == pushIf(<<>>, Truthy(pitch), attr(L_pitchAttr, pitch[1]))
        a2 == pushIf(a1, Truthy(contour), attr(L_contourAttr, contour[1]))
        a3 == pushIf(a2, Truthy(range), attr(L_rangeAttr, range[1]))
        a4 == pushIf(a3, Truthy(rate), attr(L_rateAttr, rate[1]))
        a5 == pushIf(a4, Truthy(volume), attr(L_volumeAttr, volume[1]))
        attrsStr == IF Len(a5) > 0 THEN <<" ">> \o join(a5, <<" ">>) ELSE <<>>
    IN  L_prosodyOpen \o attrsStr \o <<">">> \o escapeXml(e.text) \o L_prosodyClose

ExpressAsElement_render(e) ==
    LET a0 == <<attr(L_styleAttr, e.options.style)>>
        a1 == pushIf(a0, Truthy(e.options.styledegree),
                     attr(L_styledegreeAttr, e.options.styledegree[1]))
        a2 == pushIf(a1, Truthy(e.options.role), attr(L_roleAttr, e.options.role[1]))
    IN  L_expressAsOpen \o join(a2, <<" ">>) \o <<">">> \o escapeXml(e.text)
            \o L_expressAsClose

SayAsElement_render(e) ==
    LET a0 == <<attr(L_interpretAsAttr, e.options.interpretAs)>>
        a1 == pushIf(a0, Truthy(e.options.format), attr(L_formatAttr, e.options.format[1]))
        a2 == pushIf(a1, Truthy(e.options.detail), attr(L_detailAttr, e.options.detail[1]))
    IN  L_sayAsOpen \o join(a2, <<" ">>) \o <<">">> \o escapeXml(e.text) \o L_sayAsClose

\* a bookmark whose mark is written without quotes around it
BookmarkElement_render_unquoted(e) ==
    <<"<", "b", "o", "o", "k", "m", "a", "r", "k", " ", "m", "a", "r", "k", "=">>
        \o e.mark \o <<"/", ">">>

BookmarkElement_render(e) == L_bookmarkOpen \o e.mark \o L_quoteSelfClose

AudioElement_render(e) ==
    LET content == IF Truthy(e.fallbackText) THEN escapeXml(e.fallbackText[1]) ELSE <<>>
    IN  L_audioOpen \o e.src \o L_quoteGt \o content \o L_audioClose

\* a sub element that escapes its alias and writes the original text as it is
SubElement_render_swapped(e) ==
    L_subOpen \o escapeXml(e.alias) \o L_quoteGt \o e.original \o L_subClose

SubElement_render(e) ==
    L_subOpen \o e.alias \o L_quoteGt \o escapeXml(e.original) \o L_subClose

PhonemeElement_render(e) ==
    L_phonemeOpen \o e.options.alphabet \o L_phonemePh \o e.options.ph \o L_quoteGt
        \o escapeXml(e.text) \o L_phonemeClose

LexiconElement_render(e) == L_lexiconOpen \o e.uri \o L_quoteSelfClose

MathElement_render(e) == L_mathOpen \o e.mathML \o L_mathClose

AudioDurationElement_render(e) == L_audioDurationOpen \o e.value \o L_quoteSelfClose

TTSEmbeddingElement_render(e) ==
    L_ttsEmbeddingOpen \o e.speakerProfileId \o L_quoteGt \o escapeXml(e.text)
        \o L_ttsEmbeddingClose

VisemeElement_render(e) == L_visemeOpen \o e.type \o L_quoteSelfClose

BackgroundAudioElement_render(o) ==
    LET a0 == <<attr(L_srcAttr, o.src)>>
        a1 == pushIf(a0, Truthy(o.volume), attr(L_volumeAttr, o.volume[1]))
        a2 == pushIf(a1, Truthy(o.fadein), attr(L_fadeinAttr, o.fadein[1]))
        a3 == pushIf(a2, Truthy(o.fadeout), attr(L_fadeoutAttr, o.fadeout[1]))
    IN  L_bgOpen \o join(a3, <<" ">>) \o L_selfClose

VoiceConversionElement_render(url) == L_vcOpen \o url \o QUOTE \o L_selfClose

(***************************************************************************)
(* Container objects live in a heap (a sequence indexed by object id):     *)
(* [kind, content, name, effect, parent, lang].  kind is "voice", "p",     *)
(* "s" or "lang"; parent tells whether a VoiceBuilder holds the root.      *)
(***************************************************************************)
RECURSIVE render(_, _), contentStr(_, _)

\* a container that escapes what its child elements rendered, as it escapes its own text
contentStr_reescape(h, content) ==
    IF content = <<>> THEN <<>>
    ELSE LET c == Head(content)
         IN  escapeXml(IF c.kind = "text" THEN c.text ELSE render(h, c))
                 \o contentStr(h, Tail(content))

\* this.content.map(c => typeof c === 'string' ? this.escapeXml(c) : c.render()).join('')
contentStr(h, content) ==
    IF content = <<>> THEN <<>>
    ELSE LET c == Head(content)
         IN  (IF c.kind = "text" THEN escapeXml(c.text) ELSE render(h, c))
                 \o contentStr(h, Tail(content))

VoiceBuilder_render(h, o) ==
    LET a0 == <<attr(L_nameAttr, o.name)>>
        a1 == pushIf(a0, Truthy(o.effect), attr(L_effectAttr, o.effect[1]))
    IN  L_voiceOpen \o join(a1, <<" ">>) \o <<">">> \o contentStr(h, o.content) \o L_voiceClose

ParagraphElement_render(h, o) == L_pOpen \o contentStr(h, o.content) \o L_pClose

SentenceElement_render(h, o) == L_sOpen \o contentStr(h, o.content) \o L_sClose

LangElement_render(h, o) ==
    L_langOpen \o o.lang \o QUOTE \o <<">">> \o contentStr(h, o.content) \o L_langClose

\* c.render(): dynamic dispatch on the element's class
render(h, e) ==
    CASE e.kind = "break" -> BreakElement_render(e)
      [] e.kind = "emphasis" -> EmphasisElement_render(e)
      [] e.kind = "silence" -> SilenceElement_render(e)
      [] e.kind = "prosody" -> ProsodyElement_render(e)
      [] e.kind = "expressAs" -> ExpressAsElement_render(e)
      [] e.kind = "sayAs" -> SayAsElement_render(e)
      [] e.kind = "bookmark" -> BookmarkElement_render(e)
      [] e.kind = "audio" -> AudioElement_render(e)
      [] e.kind = "sub" -> SubElement_render(e)
      [] e.kind = "phoneme" -> PhonemeElement_render(e)
      [] e.kind = "lexicon" -> LexiconElement_render(e)
      [] e.kind = "math" -> MathElement_render(e)
      [] e.kind = "audioDuration" -> AudioDurationElement_render(e)
      [] e.kind = "ttsEmbedding" -> TTSEmbeddingElement_render(e)
      [] e.kind = "viseme" -> VisemeElement_render(e)
      [] e.kind = "ref" /\ h[e.id].kind = "voice" -> VoiceBuilder_render(h, h[e.id])
      [] e.kind = "ref" /\ h[e.id].kind = "p" -> ParagraphElement_render(h, h[e.id])
      [] e.kind = "ref" /\ h[e.id].kind = "s" -> SentenceElement_render(h, h[e.id])
      [] e.kind = "ref" /\ h[e.id].kind = "lang" -> LangElement_render(h, h[e.id])

\* a constructor that spreads the defaults over the options: { ...options, defaults }
SSMLBuilder_constructor_defaultsLast(given) ==
    [version |-> DefaultVersion, xmlns |-> DefaultXmlns, xmlnsMstts |-> DefaultXmlnsMstts,
     lang |-> given.lang]

\* new SSMLBuilder(options): defaults, overridden by the keys given
SSMLBuilder_constructor(given) ==
    [version |-> IF given.version = None THEN DefaultVersion ELSE given.version[1],
     xmlns |-> IF given.xmlns = None THEN DefaultXmlns ELSE given.xmlns[1],
     xmlnsMstts |-> IF given.xmlnsMstts = None THEN DefaultXmlnsMstts ELSE given.xmlnsMstts[1],
     lang |-> given.lang]

RECURSIVE mapRender(_, _)
\* this.elements.map(el => '\n    ' + el.render()).join('')
mapRender(h, els) ==
    IF els = <<>> THEN <<>>
    ELSE L_indent \o render(h, Ref(Head(els))) \o mapRender(h, Tail(els))

\* a build() that writes the children in another order: sections, then the
\* voice-conversion directive, then the background-audio directive
SSMLBuilder_build_result_sectionsFirst(opts, bg, vc, els, h) ==
    LET attrs == join(<<attr(L_versionAttr, opts.version), attr(L_xmlnsAttr, opts.xmlns),
                        attr(L_xmlnsMsttsAttr, opts.xmlnsMstts),
                        attr(L_xmlLangAttr, opts.lang)>>, <<" ">>)
        c1 == IF vc # None THEN L_indent \o VoiceConversionElement_render(vc[1]) ELSE <<>>
        c2 == c1 \o (IF bg # None THEN L_indent \o BackgroundAudioElement_render(bg[1])
                     ELSE <<>>)
        content == mapRender(h, els) \o c2
    IN  L_speakOpen \o attrs \o <<">">> \o content \o L_speakClose

\* the string SSMLBuilder.build() returns
SSMLBuilder_build_result(opts, bg, vc, els, h) ==
    LET attrs == join(<<attr(L_versionAttr, opts.version), attr(L_xmlnsAttr, opts.xmlns),
                        attr(L_xmlnsMsttsAttr, opts.xmlnsMstts),
                        attr(L_xmlLangAttr, opts.lang)>>, <<" ">>)
        c1 == IF bg # None THEN L_indent \o BackgroundAudioElement_render(bg[1]) ELSE <<>>
        c2 == c1 \o (IF vc # None THEN L_indent \o VoiceConversionElement_render(vc[1])
                     ELSE <<>>)
        content == c2 \o mapRender(h, els)
    IN  L_speakOpen \o attrs \o <<">">> \o content \o L_speakClose

(***************************************************************************)
(* Argument values drawn by the environment.                               *)
(***************************************************************************)
CtorOptions == {[lang |-> Lang_enUS, version |-> None, xmlns |-> None, xmlnsMstts |-> None]}
\* every combination of the optional keys, absent or given with a value of the caller
V_11 == <<"1", ".", "1">>
NS_x == <<"u", "r", "n", ":", "x">>
NS_y == <<"u", "r", "n", ":", "y">>
CtorOptionsAll ==
    [lang : {Lang_enUS, Lang_esES}, version : {None, Some(V_11)}, xmlns : {None, Some(NS_x)},
     xmlnsMstts : {None, Some(NS_y)}]
\* break(): no argument, a string (a duration or the empty string), or options with
\* each key absent or given
BreakArgsAll ==
    {[type |-> "options", str |-> <<>>, options |-> None]}
        \cup {[type |-> "string", str |-> t, options |-> None] : t \in {D_500ms, <<>>}}
        \cup {[type |-> "options", str |-> <<>>,
               options |-> Some([strength |-> st, time |-> t])] :
                  st \in {None, Some(Lv_strong)}, t \in {None, Some(D_500ms), Some(<<>>)}}
\* prosody(): option objects whose keys the caller wrote in various orders, one with
\* no key and one with a key that holds the empty string
P_high == <<"h", "i", "g", "h">>
P_contour == <<"(", "0", "%", ",", "+", "5", "H", "z", ")">>
P_low == <<"l", "o", "w">>
P_slow == <<"s", "l", "o", "w">>
ProsodyOptions ==
    {<<>>,
     <<<<"rate", P_slow>>, <<"pitch", P_high>>>>,
     <<<<"pitch", P_high>>, <<"rate", P_slow>>>>,
     <<<<"volume", S_soft>>, <<"range", P_low>>, <<"contour", P_contour>>>>,
     <<<<"volume", S_soft>>, <<"contour", P_contour>>, <<"pitch", P_high>>, <<"rate", P_slow>>,
       <<"range", P_low>>>>,
     <<<<"rate", <<>>>>, <<"pitch", P_high>>>>}
ProsodyArgs == [text : {T_plain, T_specials}, options : ProsodyOptions]
VoiceArgs == {[name |-> N_Ava, effect |-> None], [name |-> N_Andrew, effect |-> Some(E_car)]}
Texts == {T_specials, T_plain}
BreakArgs == {[type |-> "string", str |-> D_500ms, options |-> None]}
EmphasisArgs == {[text |-> T_amp, level |-> Some(Lv_strong)]}
BgArgs ==
    {[src |-> U_bg1, volume |-> Some(V_half), fadein |-> Some(D_2000ms), fadeout |-> None],
     [src |-> U_bg2, volume |-> None, fadein |-> None, fadeout |-> None]}
VcArgs == {U_vc1, U_vc2}
LangTags == {Lang_esES}
BgArgs1 == {[src |-> U_bg2, volume |-> Some(V_half), fadein |-> None, fadeout |-> None]}
VcArgs1 == {U_vc2}

VoiceArgsX ==
    {[name |-> N_Ava, effect |-> None], [name |-> X_quote, effect |-> Some(X_inject)]}
BookmarkArgs == {A_m1, X_quote, X_inject}
SubArgs ==
    {[original |-> T_specials, alias |-> A_alias], [original |-> T_plain, alias |-> X_amp]}
PhonemeArgs ==
    {[text |-> T_plain, options |-> [alphabet |-> A_ipa, ph |-> A_ph]],
     [text |-> T_specials, options |-> [alphabet |-> A_ipa, ph |-> X_quote]]}
AudioArgs ==
    {[src |-> A_src, fallbackText |-> Some(T_specials)], [src |-> X_lt, fallbackText |-> None]}
MathArgs == {M_ok, M_open}

\* one argument list per method, made of values the documentation does not allow
VoiceArgsOdd == {[name |-> <<>>, effect |-> Some(X_enum)]}
TextsOdd == {<<>>}
BreakArgsOdd ==
    {[type |-> "options", str |-> <<>>,
      options |-> Some([strength |-> Some(X_enum), time |-> Some(D_huge)])]}
SilenceArgsOdd == {[type |-> X_enum, value |-> D_huge]}
EmphasisArgsOdd == {[text |-> <<>>, level |-> Some(X_enum)]}
ProsodyArgsOdd ==
    {[text |-> T_plain, options |-> <<<<"rate", X_enum>>, <<"volume", <<>>>>>>]}
ExpressAsArgsOdd ==
    {[text |-> <<>>,
      options |-> [style |-> X_enum, styledegree |-> Some(D_huge), role |-> None]]}
SayAsArgsOdd ==
    {[text |-> T_plain,
      options |-> [interpretAs |-> X_enum, format |-> Some(<<>>), detail |-> None]]}
BookmarkArgsOdd == {<<>>}
AudioArgsOdd == {[src |-> U_bad, fallbackText |-> Some(<<>>)]}
SubArgsOdd == {[original |-> <<>>, alias |-> <<>>]}
PhonemeArgsOdd == {[text |-> T_plain, options |-> [alphabet |-> X_enum, ph |-> <<>>]]}
LexiconArgsOdd == {U_bad}
MathArgsOdd == {M_open}
AudioDurationArgsOdd == {D_huge}
TTSEmbeddingArgsOdd == {[speakerProfileId |-> <<>>, text |-> T_specials]}
VisemeArgsOdd == {X_enum}
BgArgsOdd ==
    {[src |-> U_bad, volume |-> Some(X_enum), fadein |-> Some(D_huge), fadeout |-> Some(<<>>)]}

(***************************************************************************)
(* State.                                                                  *)
(*   options, elements, _backgroundAudio, _voiceConversion: the fields of  *)
(*     the one SSMLBuilder; elements holds object ids                      *)
(*   heap: every VoiceBuilder, ParagraphElement, SentenceElement and       *)
(*     LangElement constructed so far                                      *)
(*   stack: the callbacks of paragraph/sentence/lang that are running,     *)
(*     innermost last: [owner, elem]                                       *)
(*   out: the last call, when it was build(), render(), voice() or         *)
(*     escapeXml(): [op, target, arg, kind, val, ret] with kind "ok"       *)
(*     (val returned; ret the id of a returned builder), "throw" (val the  *)
(*     error message) or "pending" (called with arg, not yet returned)     *)
(*   appended: history, per object, of the entries appended to it          *)
(*   directiveCalls: the options given to the constructor (given) and the  *)
(*     history, per directive, of the arguments of its two                 *)
(*             latest calls, the latest first                              *)
(*   buildHistory: history of build(): "none" before the first build(),    *)
(*             "built" after a build() with nothing added since, "changed" *)
(*             once something was constructed or added after a build(),    *)
(*             "rebuilt" after a build() that followed such an addition;   *)
(*             "off" throughout in the specifications that start without  *)
(*             this history                                                *)
(***************************************************************************)
VARIABLES options, elements, _backgroundAudio, _voiceConversion, heap, stack, out, appended,
          directiveCalls, buildHistory

vars == <<options, elements, _backgroundAudio, _voiceConversion, heap, stack, out, appended,
          directiveCalls, buildHistory>>

NoResult == [op |-> "none", target |-> 0, arg |-> <<>>, kind |-> "none", val |-> <<>>, ret |-> 0]
Returned(op, target, val, ret) ==
    [op |-> op, target |-> target, arg |-> <<>>, kind |-> "ok", val |-> val, ret |-> ret]
Thrown(op, target, msg) ==
    [op |-> op, target |-> target, arg |-> <<>>, kind |-> "throw", val |-> msg, ret |-> 0]

\* new VoiceBuilder(options, parent)
VoiceBuilder(a, parent) ==
    [kind |-> "voice", content |-> <<>>, name |-> a.name, effect |-> a.effect,
     parent |-> parent, lang |-> <<>>]
\* new ParagraphElement()
ParagraphElement ==
    [kind |-> "p", content |-> <<>>, name |-> <<>>, effect |-> None, parent |-> FALSE,
     lang |-> <<>>]
\* new SentenceElement()
SentenceElement ==
    [kind |-> "s", content |-> <<>>, name |-> <<>>, effect |-> None, parent |-> FALSE,
     lang |-> <<>>]
\* new LangElement(lang)
LangElement(lang) ==
    [kind |-> "lang", content |-> <<>>, name |-> <<>>, effect |-> None, parent |-> FALSE,
     lang |-> lang]

Objs == 1..Len(heap)
Voices == {i \in Objs : heap[i].kind = "voice"}
Paragraphs == {i \in Objs : heap[i].kind = "p"}
Sentences == {i \in Objs : heap[i].kind = "s"}
Langs == {i \in Objs : heap[i].kind = "lang"}

RECURSIVE SumLen(_, _)
SumLen(h, n) == IF n = 0 THEN 0 ELSE Len(h[n].content) + SumLen(h, n - 1)

\* room for one more entry, counting the one every running callback still appends
CanAppend == SumLen(heap, Len(heap)) + Len(stack) < MaxEntries
CanConstruct == Len(heap) < MaxObjs

\* ids referenced from the content list of object i
Children(h, i) == {h[i].content[k].id : k \in {j \in 1..Len(h[i].content) : h[i].content[j].kind = "ref"}}

RECURSIVE Closure(_, _, _)
Closure(h, S, n) ==
    IF n = 0 THEN S ELSE Closure(h, S \cup UNION {Children(h, i) : i \in S}, n - 1)
\* x and everything rendered inside it
Subtree(h, x) == Closure(h, {x}, Len(h))

\* x is held by no content list, not registered with the root and not under construction
Unattached(x) ==
    /\ \A i \in Objs : x \notin Children(heap, i)
    /\ \A k \in 1..Len(elements) : elements[k] # x
    /\ \A k \in 1..Len(stack) : stack[k].elem # x

\* the heap as it will be once every running callback has returned
RECURSIVE Unwound(_, _)
Unwound(h, st) ==
    IF st = <<>> THEN h
    ELSE LET f == st[Len(st)]
         IN  Unwound([h EXCEPT ![f.owner].content = Append(@, Ref(f.elem))],
                     SubSeq(st, 1, Len(st) - 1))

\* the root right after new SSMLBuilder(options), and no other object
ConstructedFrom(G) ==
    \E g \in G :
        /\ options = SSMLBuilder_constructor(g)
        /\ elements = <<>>
        /\ _backgroundAudio = None
        /\ _voiceConversion = None
        /\ heap = <<>>
        /\ stack = <<>>
        /\ out = NoResult
        /\ appended = <<>>
        /\ directiveCalls = [bg |-> <<>>, vc |-> <<>>, given |-> g]

Constructed == ConstructedFrom(CtorOptions)

Init == Constructed /\ buildHistory = "off"

\* the history of build() after a call that constructs or adds something
noteChange ==
    buildHistory' = (IF buildHistory \in {"off", "none"} THEN buildHistory ELSE "changed")

\* the history of build() after a call of build() that returned (ok) or threw
noteBuild(ok) ==
    buildHistory' = (CASE ok /\ buildHistory = "none" -> "built"
                       [] ok /\ buildHistory = "changed" -> "rebuilt"
                       [] OTHER -> buildHistory)

\* a push on a content list that all objects of one class share, as a static field
\* would be
append_static(id, e) ==
    /\ heap' = [i \in DOMAIN heap |->
                   IF heap[i].kind = heap[id].kind
                   THEN [heap[i] EXCEPT !.content = push(@, e)]
                   ELSE heap[i]]
    /\ appended' = [appended EXCEPT ![id] = Append(@, e)]

\* this.content.push(e) on object id
append(id, e) ==
    /\ heap' = [heap EXCEPT ![id].content = push(@, e)]
    /\ appended' = [appended EXCEPT ![id] = Append(@, e)]

construct(o) ==
    /\ heap' = Append(heap, o)
    /\ appended' = Append(appended, <<>>)

(***************************************************************************)
(* SSMLBuilder                                                             *)
(***************************************************************************)
\* voice(name, effect) that registers one section per voice name: the builder made for
\* a name that is registered already is returned but not added to the sections
registerVoice_oncePerName(a, caller) ==
    /\ CanConstruct
    /\ construct(VoiceBuilder(a, TRUE))
    /\ elements' = IF \E k \in 1..Len(elements) : heap[elements[k]].name = a.name
                   THEN elements
                   ELSE push(elements, Len(heap) + 1)
    /\ out' = Returned("voice", caller, <<>>, Len(heap) + 1)
    /\ noteChange
    /\ UNCHANGED <<options, _backgroundAudio, _voiceConversion, stack, directiveCalls>>

\* voice(name, effect), reached from the root (caller = 0) or through a sub-builder
registerVoice(a, caller) ==
    /\ CanConstruct
    /\ construct(VoiceBuilder(a, TRUE))
    /\ elements' = push(elements, Len(heap) + 1)
    /\ out' = Returned("voice", caller, <<>>, Len(heap) + 1)
    /\ noteChange
    /\ UNCHANGED <<options, _backgroundAudio, _voiceConversion, stack,
                   directiveCalls>>

SSMLBuilder_voice(a) == registerVoice(a, 0)

\* the two latest arguments of a directive's calls, the latest first
latestTwo(calls, a) == <<a>> \o (IF calls = <<>> THEN <<>> ELSE <<calls[1]>>)

\* backgroundAudio(options) that keeps the attributes of the previous call which the
\* new options do not give
SSMLBuilder_backgroundAudio_merge(o) ==
    /\ _backgroundAudio' =
           IF _backgroundAudio = None THEN Some(o)
           ELSE Some([f \in DOMAIN o |->
                        IF f = "src" \/ o[f] # None THEN o[f] ELSE _backgroundAudio[1][f]])
    /\ directiveCalls' = [directiveCalls EXCEPT !.bg = latestTwo(@, o)]
    /\ out' = NoResult
    /\ noteChange
    /\ UNCHANGED <<options, elements, _voiceConversion, heap, stack, appended>>

SSMLBuilder_backgroundAudio(o) ==
    /\ _backgroundAudio' = Some(o)
    /\ directiveCalls' = [directiveCalls EXCEPT !.bg = latestTwo(@, o)]
    /\ out' = NoResult
    /\ noteChange
    /\ UNCHANGED <<options, elements, _voiceConversion, heap, stack, appended>>

SSMLBuilder_voiceConversion(url) ==
    /\ _voiceConversion' = Some(url)
    /\ directiveCalls' = [directiveCalls EXCEPT !.vc = latestTwo(@, url)]
    /\ out' = NoResult
    /\ noteChange
    /\ UNCHANGED <<options, elements, _backgroundAudio, heap, stack, appended>>

\* a build() that hands the sections over: the list of sections is empty afterwards
SSMLBuilder_build_consuming ==
    /\ out' = Returned("build", 0,
                 SSMLBuilder_build_result(options, _backgroundAudio, _voiceConversion,
                                          elements, heap), 0)
    /\ noteBuild(TRUE)
    /\ elements' = <<>>
    /\ UNCHANGED <<options, _backgroundAudio, _voiceConversion, heap, stack, appended,
                   directiveCalls>>

SSMLBuilder_build ==
    /\ out' = Returned("build", 0,
                 SSMLBuilder_build_result(options, _backgroundAudio, _voiceConversion,
                                          elements, heap), 0)
    /\ noteBuild(TRUE)
    /\ UNCHANGED <<options, elements, _backgroundAudio, _voiceConversion, heap, stack,
                   appended, directiveCalls>>

(***************************************************************************)
(* VoiceBuilder                                                            *)
(***************************************************************************)
new_VoiceBuilder(a, parent) ==
    /\ CanConstruct
    /\ construct(VoiceBuilder(a, parent))
    /\ out' = NoResult
    /\ noteChange
    /\ UNCHANGED <<options, elements, _backgroundAudio, _voiceConversion, stack,
                   directiveCalls>>

\* content.push(e) of a builder that build() has closed: after the first build() the
\* call returns as before but the entry is not stored
appendTo_closed(id, e) ==
    /\ CanAppend
    /\ IF buildHistory \in {"built", "changed", "rebuilt"}
       THEN /\ appended' = [appended EXCEPT ![id] = Append(@, e)]
            /\ UNCHANGED heap
       ELSE append(id, e)
    /\ out' = NoResult
    /\ noteChange
    /\ UNCHANGED <<options, elements, _backgroundAudio, _voiceConversion, stack,
                   directiveCalls>>

appendTo(id, e) ==
    /\ CanAppend
    /\ append(id, e)
    /\ out' = NoResult
    /\ noteChange
    /\ UNCHANGED <<options, elements, _backgroundAudio, _voiceConversion, stack,
                   directiveCalls>>

VoiceBuilder_text(v, text) == v \in Voices /\ appendTo(v, TextEntry(text))

\* content.push(e) on an object of a structure that was assembled before, with room
\* for MaxEntries entries in each list
appendWithin(id, e) ==
    /\ Len(heap[id].content) < MaxEntries
    /\ append(id, e)
    /\ out' = NoResult
    /\ noteChange
    /\ UNCHANGED <<options, elements, _backgroundAudio, _voiceConversion, stack,
                   directiveCalls>>

VoiceBuilder_text_within(v, text) == v \in Voices /\ appendWithin(v, TextEntry(text))

\* break(options?: BreakOptions | string)
breakElementOf(arg) ==
    IF arg.type = "string"
    THEN BreakElement(Some([strength |-> None, time |-> Some(arg.str)]))
    ELSE BreakElement(arg.options)

\* a break() that rejects a strength outside the enumerated set
VoiceBuilder_break_validating(v, arg) ==
    /\ v \in Voices
    /\ LET o == breakElementOf(arg).options
       IN  IF o # None /\ o[1].strength # None /\ ~isValidBreakStrength(o[1].strength[1])
           THEN /\ out' = Thrown("break", v, o[1].strength[1])
                /\ UNCHANGED buildHistory
                /\ UNCHANGED <<options, elements, _backgroundAudio, _voiceConversion, heap,
                               stack, appended, directiveCalls>>
           ELSE appendTo(v, breakElementOf(arg))

VoiceBuilder_break(v, arg) == v \in Voices /\ appendTo(v, breakElementOf(arg))

VoiceBuilder_emphasis(v, a) == v \in Voices /\ appendTo(v, EmphasisElement(a.text, a.level))

VoiceBuilder_silence(v, o) == v \in Voices /\ appendTo(v, SilenceElement(o))
VoiceBuilder_prosody(v, a) == v \in Voices /\ appendTo(v, ProsodyElement(a.text, a.options))
VoiceBuilder_expressAs(v, a) ==
    v \in Voices /\ appendTo(v, ExpressAsElement(a.text, a.options))
VoiceBuilder_sayAs(v, a) == v \in Voices /\ appendTo(v, SayAsElement(a.text, a.options))
VoiceBuilder_bookmark(v, mark) == v \in Voices /\ appendTo(v, BookmarkElement(mark))
VoiceBuilder_audio(v, a) == v \in Voices /\ appendTo(v, AudioElement(a.src, a.fallbackText))
VoiceBuilder_sub(v, a) == v \in Voices /\ appendTo(v, SubElement(a.original, a.alias))
VoiceBuilder_phoneme(v, a) == v \in Voices /\ appendTo(v, PhonemeElement(a.text, a.options))
VoiceBuilder_lexicon(v, uri) == v \in Voices /\ appendTo(v, LexiconElement(uri))
VoiceBuilder_math(v, mathML) == v \in Voices /\ appendTo(v, MathElement(mathML))
VoiceBuilder_audioDuration(v, value) ==
    v \in Voices /\ appendTo(v, AudioDurationElement(value))
VoiceBuilder_ttsEmbedding(v, a) ==
    v \in Voices /\ appendTo(v, TTSEmbeddingElement(a.speakerProfileId, a.text))
VoiceBuilder_viseme(v, type) == v \in Voices /\ appendTo(v, VisemeElement(type))

\* paragraph/sentence/lang up to the call of the callback: the new element is constructed
\* and the callback starts running on it
enterCallback(v, o) ==
    /\ v \in Voices
    /\ CanConstruct
    /\ CanAppend
    /\ construct(o)
    /\ stack' = Append(stack, [owner |-> v, elem |-> Len(heap) + 1])
    /\ out' = NoResult
    /\ noteChange
    /\ UNCHANGED <<options, elements, _backgroundAudio, _voiceConversion,
                   directiveCalls>>

VoiceBuilder_paragraph(v) == enterCallback(v, ParagraphElement)
VoiceBuilder_sentence(v) == enterCallback(v, SentenceElement)
VoiceBuilder_lang(v, lang) == enterCallback(v, LangElement(lang))

\* a return that puts the element where the owner's list ended when the callback
\* started, before the entry the callback appended to the owner last
callback_return_beforeLast ==
    /\ stack # <<>>
    /\ LET f == stack[Len(stack)]
           c == heap[f.owner].content
           at == IF c = <<>> THEN 0 ELSE Len(c) - 1
       IN  /\ heap' = [heap EXCEPT ![f.owner].content =
                           SubSeq(c, 1, at) \o <<Ref(f.elem)>> \o SubSeq(c, at + 1, Len(c))]
           /\ appended' = [appended EXCEPT ![f.owner] = Append(@, Ref(f.elem))]
    /\ stack' = SubSeq(stack, 1, Len(stack) - 1)
    /\ out' = NoResult
    /\ noteChange
    /\ UNCHANGED <<options, elements, _backgroundAudio, _voiceConversion,
                   directiveCalls>>

\* a return that puts the element at the front of the owner's list
callback_return_unshift ==
    /\ stack # <<>>
    /\ LET f == stack[Len(stack)]
       IN  /\ heap' = [heap EXCEPT ![f.owner].content = <<Ref(f.elem)>> \o @]
           /\ appended' = [appended EXCEPT ![f.owner] = <<Ref(f.elem)>> \o @]
    /\ stack' = SubSeq(stack, 1, Len(stack) - 1)
    /\ out' = NoResult
    /\ noteChange
    /\ UNCHANGED <<options, elements, _backgroundAudio, _voiceConversion,
                   directiveCalls>>

\* the innermost callback returns: this.content.push(element); return this
callback_return ==
    /\ stack # <<>>
    /\ LET f == stack[Len(stack)] IN append(f.owner, Ref(f.elem))
    /\ stack' = SubSeq(stack, 1, Len(stack) - 1)
    /\ out' = NoResult
    /\ noteChange
    /\ UNCHANGED <<options, elements, _backgroundAudio, _voiceConversion,
                   directiveCalls>>

\* the name of the method that is running the callback of frame f
methodOf(f) ==
    CASE heap[f.elem].kind = "p" -> "paragraph"
      [] heap[f.elem].kind = "s" -> "sentence"
      [] OTHER -> "lang"

\* a throw that still appends the element, as a push in a finally clause would
callback_throw_finally ==
    /\ stack # <<>>
    /\ LET f == stack[Len(stack)]
       IN  /\ append(f.owner, Ref(f.elem))
           /\ out' = Thrown(methodOf(f), f.owner, E_thrown)
    /\ stack' = SubSeq(stack, 1, Len(stack) - 1)
    /\ noteChange
    /\ UNCHANGED <<options, elements, _backgroundAudio, _voiceConversion,
                   directiveCalls>>

\* the innermost callback throws: callback(element) does not return, the push after it
\* is not reached, and paragraph/sentence/lang passes the exception on to its caller
callback_throw ==
    /\ stack # <<>>
    /\ LET f == stack[Len(stack)] IN out' = Thrown(methodOf(f), f.owner, E_thrown)
    /\ stack' = SubSeq(stack, 1, Len(stack) - 1)
    /\ UNCHANGED buildHistory
    /\ UNCHANGED <<options, elements, _backgroundAudio, _voiceConversion, heap, appended,
                   directiveCalls>>

\* a build() without the test for the missing parent
VoiceBuilder_build_unchecked(v) ==
    Returned("build", v,
        SSMLBuilder_build_result(options, _backgroundAudio, _voiceConversion, elements, heap),
        0)

\* a build() that renders the receiver's own section instead of delegating to the root
VoiceBuilder_build_self(v) ==
    IF ~heap[v].parent THEN Thrown("build", v, L_errBuild)
    ELSE Returned("build", v, render(heap, Ref(v)), 0)

\* what VoiceBuilder.build() returns or throws
VoiceBuilder_build_result(v) ==
    IF ~heap[v].parent THEN Thrown("build", v, L_errBuild)
    ELSE Returned("build", v,
             SSMLBuilder_build_result(options, _backgroundAudio, _voiceConversion,
                                      elements, heap), 0)

VoiceBuilder_build(v) ==
    /\ v \in Voices
    /\ out' = VoiceBuilder_build_result(v)
    /\ noteBuild(out'.kind = "ok")
    /\ UNCHANGED <<options, elements, _backgroundAudio, _voiceConversion, heap, stack,
                   appended, directiveCalls>>

\* voice(name, effect) of a sub-builder that registers the new section and returns the
\* receiver instead of the new builder
VoiceBuilder_voice_returnsThis(v, a) ==
    /\ v \in Voices
    /\ IF ~heap[v].parent
       THEN /\ out' = Thrown("voice", v, L_errVoice)
            /\ UNCHANGED buildHistory
            /\ UNCHANGED <<options, elements, _backgroundAudio, _voiceConversion, heap,
                           stack, appended, directiveCalls>>
       ELSE /\ CanConstruct
            /\ construct(VoiceBuilder(a, TRUE))
            /\ elements' = push(elements, Len(heap) + 1)
            /\ out' = Returned("voice", v, <<>>, v)
            /\ noteChange
            /\ UNCHANGED <<options, _backgroundAudio, _voiceConversion, stack,
                           directiveCalls>>

VoiceBuilder_voice(v, a) ==
    /\ v \in Voices
    /\ IF ~heap[v].parent
       THEN /\ out' = Thrown("voice", v, L_errVoice)
            /\ UNCHANGED buildHistory
            /\ UNCHANGED <<options, elements, _backgroundAudio, _voiceConversion, heap,
                           stack, appended, directiveCalls>>
       ELSE registerVoice(a, v)

(***************************************************************************)
(* ParagraphElement, SentenceElement, LangElement                          *)
(***************************************************************************)
new_Element(o) ==
    /\ CanConstruct
    /\ construct(o)
    /\ out' = NoResult
    /\ noteChange
    /\ UNCHANGED <<options, elements, _backgroundAudio, _voiceConversion, stack,
                   directiveCalls>>

ParagraphElement_text(p, text) == p \in Paragraphs /\ appendTo(p, TextEntry(text))
ParagraphElement_text_within(p, text) ==
    p \in Paragraphs /\ appendWithin(p, TextEntry(text))
SentenceElement_text(s, text) == s \in Sentences /\ appendTo(s, TextEntry(text))
LangElement_text(l, text) == l \in Langs /\ appendTo(l, TextEntry(text))

ParagraphElement_break(p, arg) == p \in Paragraphs /\ appendTo(p, breakElementOf(arg))

\* p.sentence(callback) on a ParagraphElement: the class has no method sentence, so the
\* call is a TypeError (p.sentence is not a function), raised before the inner callback
\* runs; uncaught, it leaves every callback that is running, and no paragraph() or
\* lang() that was waiting for its callback appends its element
ParagraphElement_sentence(p) ==
    /\ p \in Paragraphs
    /\ out' = Thrown("sentence", p, <<>>)
    /\ stack' = <<>>
    /\ UNCHANGED buildHistory
    /\ UNCHANGED <<options, elements, _backgroundAudio, _voiceConversion, heap, appended,
                   directiveCalls>>
ParagraphElement_emphasis(p, a) ==
    p \in Paragraphs /\ appendTo(p, EmphasisElement(a.text, a.level))

\* The elements handed to addElement: a leaf constructed for the call, or a container
\* built beforehand that is held nowhere else and does not contain the receiver.
FreshElements(c) ==
    {breakElementOf(arg) : arg \in BreakArgs}
        \cup {EmphasisElement(a.text, a.level) : a \in EmphasisArgs}
        \cup {Ref(x) : x \in {y \in Objs : Unattached(y) /\ c \notin Subtree(Unwound(heap, stack), y)}}

ParagraphElement_addElement(p, e) == p \in Paragraphs /\ appendTo(p, e)
SentenceElement_addElement(s, e) == s \in Sentences /\ appendTo(s, e)
LangElement_addElement(l, e) == l \in Langs /\ appendTo(l, e)

(***************************************************************************)
(* SentenceBuilder: a builder around one SentenceElement of its own, which  *)
(* stands for it in the heap.                                              *)
(***************************************************************************)
new_SentenceBuilder == new_Element(SentenceElement)
\* this.sentence.addElement(new BreakElement(...))
SentenceBuilder_break(s, arg) == s \in Sentences /\ appendTo(s, breakElementOf(arg))

\* render() called directly on a builder or container object
Element_render(id) ==
    /\ id \in Objs
    /\ out' = Returned("render", id, render(heap, Ref(id)), 0)
    /\ UNCHANGED buildHistory
    /\ UNCHANGED <<options, elements, _backgroundAudio, _voiceConversion, heap, stack,
                   appended, directiveCalls>>

(***************************************************************************)
(* render() on structures that addElement can assemble.  render() of a     *)
(* container calls render() of every element of its content list, with no  *)
(* record of the objects already visited.                                  *)
(***************************************************************************)
RECURSIVE renderDepth(_, _, _)
\* the depth of the nested render() calls that render() of object x makes, followed for
\* at most fuel levels
renderDepth(h, x, fuel) ==
    IF fuel = 0 THEN 0
    ELSE LET below == {renderDepth(h, c, fuel - 1) : c \in Children(h, x)}
         IN  1 + (IF below = {} THEN 0 ELSE CHOOSE d \in below : \A e \in below : e <= d)

\* a nesting that treats an element met twice as a nesting without end
renderOverflows_onSharing(h, x) ==
    \/ renderDepth(h, x, Len(h) + 1) > Len(h)
    \/ \E y \in Subtree(h, x) :
           \E i, j \in Subtree(h, x) : \E k \in 1..Len(h[i].content), m \in 1..Len(h[j].content) :
               /\ <<i, k>> # <<j, m>>
               /\ h[i].content[k] = Ref(y) /\ h[j].content[m] = Ref(y)

\* the nesting of render() calls below x is deeper than the number of objects: some
\* object is rendered inside itself, and the nesting has no end
renderOverflows(h, x) == renderDepth(h, x, Len(h) + 1) > Len(h)

\* the result of a call whose recursion exhausts the call stack (RangeError)
Overflowed(op, target) ==
    [op |-> op, target |-> target, arg |-> <<>>, kind |-> "overflow", val |-> <<>>, ret |-> 0]

\* render() called on a builder or container object of any structure
Element_render_any(id) ==
    /\ id \in Objs
    /\ IF renderOverflows(heap, id)
       THEN /\ out' = Overflowed("render", id)
            /\ UNCHANGED buildHistory
            /\ UNCHANGED <<options, elements, _backgroundAudio, _voiceConversion, heap, stack,
                           appended, directiveCalls>>
       ELSE Element_render(id)

\* build() of the root over sections of any structure
SSMLBuilder_build_any ==
    IF \E k \in 1..Len(elements) : renderOverflows(heap, elements[k])
    THEN /\ out' = Overflowed("build", 0)
         /\ UNCHANGED buildHistory
         /\ UNCHANGED <<options, elements, _backgroundAudio, _voiceConversion, heap, stack,
                        appended, directiveCalls>>
    ELSE SSMLBuilder_build

Next ==
    \/ \E a \in VoiceArgs : SSMLBuilder_voice(a)
    \/ \E o \in BgArgs : SSMLBuilder_backgroundAudio(o)
    \/ \E u \in VcArgs : SSMLBuilder_voiceConversion(u)
    \/ SSMLBuilder_build
    \/ \E a \in VoiceArgs, p \in BOOLEAN : new_VoiceBuilder(a, p)
    \/ \E v \in Objs, t \in Texts : VoiceBuilder_text(v, t)
    \/ \E v \in Objs, b \in BreakArgs : VoiceBuilder_break(v, b)
    \/ \E v \in Objs, a \in EmphasisArgs : VoiceBuilder_emphasis(v, a)
    \/ \E v \in Objs : VoiceBuilder_paragraph(v)
    \/ \E v \in Objs : VoiceBuilder_sentence(v)
    \/ \E v \in Objs, l \in LangTags : VoiceBuilder_lang(v, l)
    \/ callback_return
    \/ callback_throw
    \/ \E v \in Objs : VoiceBuilder_build(v)
    \/ \E v \in Objs, a \in VoiceArgs : VoiceBuilder_voice(v, a)
    \/ \E o \in {ParagraphElement, SentenceElement} \cup {LangElement(l) : l \in LangTags} :
           new_Element(o)
    \/ \E p \in Objs, t \in Texts : ParagraphElement_text(p, t)
    \/ \E s \in Objs, t \in Texts : SentenceElement_text(s, t)
    \/ \E l \in Objs, t \in Texts : LangElement_text(l, t)
    \/ \E p \in Objs, b \in BreakArgs : ParagraphElement_break(p, b)
    \/ \E p \in Objs, a \in EmphasisArgs : ParagraphElement_emphasis(p, a)
    \/ \E p \in Objs : ParagraphElement_sentence(p)
    \/ \E p \in Objs : \E e \in FreshElements(p) : ParagraphElement_addElement(p, e)
    \/ \E s \in Objs : \E e \in FreshElements(s) : SentenceElement_addElement(s, e)
    \/ \E l \in Objs : \E e \in FreshElements(l) : LangElement_addElement(l, e)
    \/ new_SentenceBuilder
    \/ \E x \in Objs, b \in BreakArgs : SentenceBuilder_break(x, b)
    \/ \E v \in Objs, o \in SilenceArgsOdd : VoiceBuilder_silence(v, o)
    \/ \E v \in Objs, a \in ProsodyArgs : VoiceBuilder_prosody(v, a)
    \/ \E v \in Objs, a \in ExpressAsArgsOdd : VoiceBuilder_expressAs(v, a)
    \/ \E v \in Objs, a \in SayAsArgsOdd : VoiceBuilder_sayAs(v, a)
    \/ \E v \in Objs, m \in BookmarkArgs : VoiceBuilder_bookmark(v, m)
    \/ \E v \in Objs, a \in AudioArgs : VoiceBuilder_audio(v, a)
    \/ \E v \in Objs, a \in SubArgs : VoiceBuilder_sub(v, a)
    \/ \E v \in Objs, a \in PhonemeArgs : VoiceBuilder_phoneme(v, a)
    \/ \E v \in Objs, u \in LexiconArgsOdd : VoiceBuilder_lexicon(v, u)
    \/ \E v \in Objs, m \in MathArgs : VoiceBuilder_math(v, m)
    \/ \E v \in Objs, d \in AudioDurationArgsOdd : VoiceBuilder_audioDuration(v, d)
    \/ \E v \in Objs, a \in TTSEmbeddingArgsOdd : VoiceBuilder_ttsEmbedding(v, a)
    \/ \E v \in Objs, t \in VisemeArgsOdd : VoiceBuilder_viseme(v, t)
    \/ \E id \in Objs : Element_render(id)

Spec == Init /\ [][Next]_vars

(***************************************************************************)
(* The document level alone: the root with its two directives and its      *)
(* voice sections, each section filled with text and breaks.               *)
(***************************************************************************)
NextRoot ==
    \/ \E a \in VoiceArgs : SSMLBuilder_voice(a)
    \/ \E o \in BgArgs1 : SSMLBuilder_backgroundAudio(o)
    \/ \E u \in VcArgs1 : SSMLBuilder_voiceConversion(u)
    \/ SSMLBuilder_build
    \/ \E v \in Objs, t \in Texts : VoiceBuilder_text(v, t)
    \/ \E v \in Objs : VoiceBuilder_build(v)
    \/ \E v \in Objs, a \in VoiceArgs : VoiceBuilder_voice(v, a)

SpecRoot == Init /\ [][NextRoot]_vars

(***************************************************************************)
(* The content tree alone: one kind of voice section, no directive, and    *)
(* every way of filling and nesting content lists.                         *)
(***************************************************************************)
VoiceArgs1 == {[name |-> N_Ava, effect |-> None]}
Texts1 == {T_test}

\* as FreshElements, with the one leaf the content tree needs
FreshElements1(c) == {e \in FreshElements(c) : e.kind # "emphasis"}

NextNest ==
    \/ \E a \in VoiceArgs1 : SSMLBuilder_voice(a)
    \/ SSMLBuilder_build
    \/ \E v \in Objs, t \in Texts1 : VoiceBuilder_text(v, t)
    \/ \E v \in Objs, b \in BreakArgs : VoiceBuilder_break(v, b)
    \/ \E v \in Objs : VoiceBuilder_paragraph(v)
    \/ \E v \in Objs : VoiceBuilder_sentence(v)
    \/ \E v \in Objs, l \in LangTags : VoiceBuilder_lang(v, l)
    \/ callback_return
    \/ \E o \in {ParagraphElement, SentenceElement} \cup {LangElement(l) : l \in LangTags} :
           new_Element(o)
    \/ \E p \in Objs, t \in Texts1 : ParagraphElement_text(p, t)
    \/ \E s \in Objs, t \in Texts1 : SentenceElement_text(s, t)
    \/ \E l \in Objs, t \in Texts1 : LangElement_text(l, t)
    \/ \E p \in Objs : \E e \in FreshElements1(p) : ParagraphElement_addElement(p, e)
    \/ \E s \in Objs : \E e \in FreshElements1(s) : SentenceElement_addElement(s, e)
    \/ \E l \in Objs : \E e \in FreshElements1(l) : LangElement_addElement(l, e)

SpecNest == Init /\ [][NextNest]_vars

(***************************************************************************)
(* Voice builders constructed directly, next to registered ones, with      *)
(* build() and render() called on every object.                            *)
(***************************************************************************)
TextsPlain == {T_plain}

NextAlone ==
    \/ \E a \in VoiceArgs1 : SSMLBuilder_voice(a)
    \/ \E o \in BgArgs1 : SSMLBuilder_backgroundAudio(o)
    \/ SSMLBuilder_build
    \/ \E a \in VoiceArgs1 : new_VoiceBuilder(a, FALSE)
    \/ \E v \in Objs, t \in TextsPlain : VoiceBuilder_text(v, t)
    \/ \E v \in Objs, b \in BreakArgs : VoiceBuilder_break(v, b)
    \/ \E v \in Objs : VoiceBuilder_paragraph(v)
    \/ callback_return
    \/ \E p \in Objs, t \in TextsPlain : ParagraphElement_text(p, t)
    \/ \E v \in Objs : VoiceBuilder_build(v)
    \/ \E v \in Objs, a \in VoiceArgs1 : VoiceBuilder_voice(v, a)
    \/ \E id \in Objs : Element_render(id)

SpecAlone == Init /\ [][NextAlone]_vars

(***************************************************************************)
(* The document-level directives: every order of backgroundAudio(),        *)
(* voiceConversion(), voice(), text() and build(), with two values for     *)
(* each directive.                                                         *)
(***************************************************************************)
NextDirectives ==
    \/ \E a \in VoiceArgs1 : SSMLBuilder_voice(a)
    \/ \E o \in BgArgs : SSMLBuilder_backgroundAudio(o)
    \/ \E u \in VcArgs : SSMLBuilder_voiceConversion(u)
    \/ SSMLBuilder_build
    \/ \E v \in Objs, t \in TextsPlain : VoiceBuilder_text(v, t)
    \/ \E v \in Objs, a \in VoiceArgs1 : VoiceBuilder_voice(v, a)

SpecDirectives == Init /\ [][NextDirectives]_vars

(***************************************************************************)
(* The voice sections alone: voice() on the root and through sub-builders, *)
(* with two voice names, text() and build().                               *)
(***************************************************************************)
NextSections ==
    \/ \E a \in VoiceArgs : SSMLBuilder_voice(a)
    \/ SSMLBuilder_build
    \/ \E v \in Objs, t \in Texts : VoiceBuilder_text(v, t)
    \/ \E v \in Objs : VoiceBuilder_build(v)
    \/ \E v \in Objs, a \in VoiceArgs : VoiceBuilder_voice(v, a)

SpecSections == Init /\ [][NextSections]_vars

(***************************************************************************)
(* build() between other calls, with its history recorded: sections, text, *)
(* breaks and directives added before and after a build().                 *)
(***************************************************************************)
InitRebuild == Constructed /\ buildHistory = "none"

NextRebuild ==
    \/ \E a \in VoiceArgs1 : SSMLBuilder_voice(a)
    \/ \E o \in BgArgs1 : SSMLBuilder_backgroundAudio(o)
    \/ \E u \in VcArgs1 : SSMLBuilder_voiceConversion(u)
    \/ SSMLBuilder_build
    \/ \E v \in Objs, t \in TextsPlain : VoiceBuilder_text(v, t)
    \/ \E v \in Objs, b \in BreakArgs : VoiceBuilder_break(v, b)
    \/ \E v \in Objs : VoiceBuilder_build(v)
    \/ \E v \in Objs, a \in VoiceArgs1 : VoiceBuilder_voice(v, a)

SpecRebuild == InitRebuild /\ [][NextRebuild]_vars

(***************************************************************************)
(* escapeXml as a function of its argument: every text of at most          *)
(* MaxTextLen characters over the reserved characters and two others,      *)
(* and the sample texts.                                                   *)
(***************************************************************************)
EscapeChars == {"&", "<", ">", "\"", "'", "a", ";"}

RECURSIVE TextsUpTo(_)
TextsUpTo(n) ==
    IF n = 0 THEN {<<>>}
    ELSE LET S == TextsUpTo(n - 1) IN S \cup {Append(t, c) : t \in S, c \in EscapeChars}

EscapeInputs == TextsUpTo(MaxTextLen) \cup {T_test, T_amp, T_specials, L_amp}

InitEscape ==
    /\ options \in {SSMLBuilder_constructor(g) : g \in CtorOptions}
    /\ elements = <<>>
    /\ _backgroundAudio = None
    /\ _voiceConversion = None
    /\ heap = <<>>
    /\ stack = <<>>
    /\ appended = <<>>
    /\ directiveCalls \in {[bg |-> <<>>, vc |-> <<>>, given |-> g] : g \in CtorOptions}
    /\ buildHistory = "off"
    /\ out \in {[NoResult EXCEPT !.op = f, !.arg = t, !.kind = "pending"] :
                   f \in {"SSMLElement.escapeXml", "escapeXml"}, t \in EscapeInputs}

\* the pending call of the protected method returns
SSMLElement_escapeXml ==
    /\ out.kind = "pending" /\ out.op = "SSMLElement.escapeXml"
    /\ out' = [out EXCEPT !.kind = "ok", !.val = escapeXml(out.arg)]
    /\ UNCHANGED buildHistory
    /\ UNCHANGED <<options, elements, _backgroundAudio, _voiceConversion, heap, stack,
                   appended, directiveCalls>>

\* the pending call of the exported utility returns
xml_escapeXml ==
    /\ out.kind = "pending" /\ out.op = "escapeXml"
    /\ out' = [out EXCEPT !.kind = "ok", !.val = utils_escapeXml(out.arg)]
    /\ UNCHANGED buildHistory
    /\ UNCHANGED <<options, elements, _backgroundAudio, _voiceConversion, heap, stack,
                   appended, directiveCalls>>

NextEscape == SSMLElement_escapeXml \/ xml_escapeXml

SpecEscape == InitEscape /\ [][NextEscape]_vars

(***************************************************************************)
(* escapeXml applied to its own result.                                    *)
(***************************************************************************)
\* the value the protected method returned is passed to it again
SSMLElement_escapeXml_again ==
    /\ out.kind = "ok" /\ out.op = "SSMLElement.escapeXml"
    /\ out' = [out EXCEPT !.kind = "twice", !.val = escapeXml(out.val)]
    /\ UNCHANGED buildHistory
    /\ UNCHANGED <<options, elements, _backgroundAudio, _voiceConversion, heap, stack,
                   appended, directiveCalls>>

\* the value the exported utility returned is passed to it again
xml_escapeXml_again ==
    /\ out.kind = "ok" /\ out.op = "escapeXml"
    /\ out' = [out EXCEPT !.kind = "twice", !.val = utils_escapeXml(out.val)]
    /\ UNCHANGED buildHistory
    /\ UNCHANGED <<options, elements, _backgroundAudio, _voiceConversion, heap, stack,
                   appended, directiveCalls>>

NextEscapeTwice ==
    \/ SSMLElement_escapeXml
    \/ xml_escapeXml
    \/ SSMLElement_escapeXml_again
    \/ xml_escapeXml_again

SpecEscapeTwice == InitEscape /\ [][NextEscapeTwice]_vars

(***************************************************************************)
(* One voice section filled with leaves whose attribute values and math    *)
(* payloads are plain or hold reserved characters.                         *)
(***************************************************************************)
TextsSpecial == {T_specials}

NextLeaves ==
    \/ \E a \in VoiceArgsX : elements = <<>> /\ SSMLBuilder_voice(a)
    \/ \E v \in Objs, t \in TextsSpecial : VoiceBuilder_text(v, t)
    \/ \E v \in Objs, m \in BookmarkArgs : VoiceBuilder_bookmark(v, m)
    \/ \E v \in Objs, a \in SubArgs : VoiceBuilder_sub(v, a)
    \/ \E v \in Objs, a \in PhonemeArgs : VoiceBuilder_phoneme(v, a)
    \/ \E v \in Objs, a \in AudioArgs : VoiceBuilder_audio(v, a)
    \/ \E v \in Objs, m \in MathArgs : VoiceBuilder_math(v, m)
    \/ SSMLBuilder_build

SpecLeaves == Init /\ [][NextLeaves]_vars

(***************************************************************************)
(* One voice builder, registered with the root or constructed directly,    *)
(* whose every method is called with values the documentation does not     *)
(* allow; build(), voice() and render() called at any time.                *)
(***************************************************************************)
NextOdd ==
    \/ \E a \in VoiceArgsOdd : heap = <<>> /\ SSMLBuilder_voice(a)
    \/ \E a \in VoiceArgsOdd : heap = <<>> /\ new_VoiceBuilder(a, FALSE)
    \/ \E o \in BgArgsOdd : SSMLBuilder_backgroundAudio(o)
    \/ \E v \in Objs, t \in TextsOdd : VoiceBuilder_text(v, t)
    \/ \E v \in Objs, b \in BreakArgsOdd : VoiceBuilder_break(v, b)
    \/ \E v \in Objs, o \in SilenceArgsOdd : VoiceBuilder_silence(v, o)
    \/ \E v \in Objs, a \in EmphasisArgsOdd : VoiceBuilder_emphasis(v, a)
    \/ \E v \in Objs, a \in ProsodyArgsOdd : VoiceBuilder_prosody(v, a)
    \/ \E v \in Objs, a \in ExpressAsArgsOdd : VoiceBuilder_expressAs(v, a)
    \/ \E v \in Objs, a \in SayAsArgsOdd : VoiceBuilder_sayAs(v, a)
    \/ \E v \in Objs, m \in BookmarkArgsOdd : VoiceBuilder_bookmark(v, m)
    \/ \E v \in Objs, a \in AudioArgsOdd : VoiceBuilder_audio(v, a)
    \/ \E v \in Objs, a \in SubArgsOdd : VoiceBuilder_sub(v, a)
    \/ \E v \in Objs, a \in PhonemeArgsOdd : VoiceBuilder_phoneme(v, a)
    \/ \E v \in Objs, u \in LexiconArgsOdd : VoiceBuilder_lexicon(v, u)
    \/ \E v \in Objs, m \in MathArgsOdd : VoiceBuilder_math(v, m)
    \/ \E v \in Objs, d \in AudioDurationArgsOdd : VoiceBuilder_audioDuration(v, d)
    \/ \E v \in Objs, a \in TTSEmbeddingArgsOdd : VoiceBuilder_ttsEmbedding(v, a)
    \/ \E v \in Objs, t \in VisemeArgsOdd : VoiceBuilder_viseme(v, t)
    \/ SSMLBuilder_build
    \/ \E v \in Objs : VoiceBuilder_build(v)
    \/ \E v \in {x \in Objs : ~heap[x].parent}, a \in VoiceArgsOdd : VoiceBuilder_voice(v, a)
    \/ \E id \in Objs : Element_render(id)

SpecOdd == Init /\ [][NextOdd]_vars

(***************************************************************************)
(* The root constructed with every combination of options, then filled     *)
(* and built.                                                              *)
(***************************************************************************)
InitSpeak == ConstructedFrom(CtorOptionsAll) /\ buildHistory = "off"

NextSpeak ==
    \/ \E a \in VoiceArgs1 : SSMLBuilder_voice(a)
    \/ \E o \in BgArgs1 : SSMLBuilder_backgroundAudio(o)
    \/ \E v \in Objs, t \in TextsPlain : VoiceBuilder_text(v, t)
    \/ SSMLBuilder_build

SpecSpeak == InitSpeak /\ [][NextSpeak]_vars

(***************************************************************************)
(* One voice builder, paragraph or sentence builder that receives breaks   *)
(* of every form and is rendered.                                          *)
(***************************************************************************)
NextBreak ==
    \/ \E a \in VoiceArgs1 : heap = <<>> /\ SSMLBuilder_voice(a)
    \/ heap = <<>> /\ new_Element(ParagraphElement)
    \/ heap = <<>> /\ new_SentenceBuilder
    \/ \E v \in Objs, b \in BreakArgsAll : VoiceBuilder_break(v, b)
    \/ \E p \in Objs, b \in BreakArgsAll : ParagraphElement_break(p, b)
    \/ \E x \in Objs, b \in BreakArgsAll : SentenceBuilder_break(x, b)
    \/ \E id \in Objs : Element_render(id)

SpecBreak == Init /\ [][NextBreak]_vars

(***************************************************************************)
(* One voice section filled with prosody elements and rendered.            *)
(***************************************************************************)
NextProsody ==
    \/ \E a \in VoiceArgs1 : heap = <<>> /\ SSMLBuilder_voice(a)
    \/ \E v \in Objs, a \in ProsodyArgs : VoiceBuilder_prosody(v, a)
    \/ \E id \in Objs : Element_render(id)
    \/ SSMLBuilder_build

SpecProsody == Init /\ [][NextProsody]_vars

(***************************************************************************)
(* The paragraph scope that VoiceBuilder.paragraph hands to its callback,  *)
(* and the calls made on it.                                               *)
(***************************************************************************)
NextParagraph ==
    \/ \E a \in VoiceArgs : SSMLBuilder_voice(a)
    \/ \E v \in Objs, t \in Texts : VoiceBuilder_text(v, t)
    \/ \E v \in Objs : VoiceBuilder_paragraph(v)
    \/ \E p \in Objs, t \in Texts : ParagraphElement_text(p, t)
    \/ \E p \in Objs, b \in BreakArgs : ParagraphElement_break(p, b)
    \/ \E p \in Objs : ParagraphElement_sentence(p)
    \/ callback_return
    \/ SSMLBuilder_build

SpecParagraph == Init /\ [][NextParagraph]_vars

(***************************************************************************)
(* isValidVolume as a function of its argument: every string of at most    *)
(* MaxTextLen characters over digits, sign, point, percent and the letters *)
(* of the unit, and the values of the function's own examples.             *)
(***************************************************************************)
VolumeChars == {"0", "1", "5", ".", "%", "+", "d", "B"}

RECURSIVE VolumesUpTo(_)
VolumesUpTo(n) ==
    IF n = 0 THEN {<<>>}
    ELSE LET S == VolumesUpTo(n - 1) IN S \cup {Append(t, c) : t \in S, c \in VolumeChars}

V_50 == <<"5", "0">>
V_75pc == <<"7", "5", "%">>
V_100pc == <<"1", "0", "0", "%">>
V_150pc == <<"1", "5", "0", "%">>
V_plus10dB == <<"+", "1", "0", "d", "B">>
V_minus5p5dB == <<"-", "5", ".", "5", "d", "B">>
V_10db == <<"1", "0", "d", "b">>
V_veryloud == <<"v", "e", "r", "y", "-", "l", "o", "u", "d">>

VolumeExamples ==
    {V_50, V_75pc, V_100pc, V_150pc, V_plus10dB, V_minus5p5dB, V_10db, V_veryloud,
     S_silent, S_xsoft, S_soft, S_medium, S_loud, S_xloud}

VolumeInputs == VolumesUpTo(MaxTextLen) \cup VolumeExamples

InitVolume ==
    /\ options \in {SSMLBuilder_constructor(g) : g \in CtorOptions}
    /\ elements = <<>>
    /\ _backgroundAudio = None
    /\ _voiceConversion = None
    /\ heap = <<>>
    /\ stack = <<>>
    /\ appended = <<>>
    /\ directiveCalls \in {[bg |-> <<>>, vc |-> <<>>, given |-> g] : g \in CtorOptions}
    /\ buildHistory = "off"
    /\ out \in {[NoResult EXCEPT !.op = "isValidVolume", !.arg = t, !.kind = "pending"] :
                   t \in VolumeInputs}

\* the pending call of the exported utility returns its boolean
xml_isValidVolume ==
    /\ out.kind = "pending" /\ out.op = "isValidVolume"
    /\ out' = [out EXCEPT !.kind = "ok", !.val = isValidVolume(out.arg)]
    /\ UNCHANGED buildHistory
    /\ UNCHANGED <<options, elements, _backgroundAudio, _voiceConversion, heap, stack,
                   appended, directiveCalls>>

NextVolume == xml_isValidVolume

SpecVolume == InitVolume /\ [][NextVolume]_vars

(***************************************************************************)
(* One voice builder, paragraph or sentence builder that receives breaks   *)
(* with times below, at and above 20000ms, and is rendered.                *)
(***************************************************************************)
D_2s == <<"2", "s">>
D_20s == <<"2", "0", "s">>
D_20000ms == <<"2", "0", "0", "0", "0", "m", "s">>
D_25000ms == <<"2", "5", "0", "0", "0", "m", "s">>
D_30s == <<"3", "0", "s">>
D_20p5s == <<"2", "0", ".", "5", "s">>
BreakTimes == {D_500ms, D_2s, D_20s, D_20000ms, D_25000ms, D_30s, D_20p5s, D_huge}
BreakTimeArgs ==
    {[type |-> "string", str |-> t, options |-> None] : t \in BreakTimes}
        \cup {[type |-> "options", str |-> <<>>,
               options |-> Some([strength |-> st, time |-> Some(t)])] :
                  st \in {None, Some(Lv_strong)}, t \in BreakTimes}

NextBreakTime ==
    \/ \E a \in VoiceArgs1 : heap = <<>> /\ SSMLBuilder_voice(a)
    \/ heap = <<>> /\ new_Element(ParagraphElement)
    \/ heap = <<>> /\ new_SentenceBuilder
    \/ \E v \in Objs, b \in BreakTimeArgs : VoiceBuilder_break(v, b)
    \/ \E p \in Objs, b \in BreakTimeArgs : ParagraphElement_break(p, b)
    \/ \E x \in Objs, b \in BreakTimeArgs : SentenceBuilder_break(x, b)
    \/ \E id \in Objs : Element_render(id)

SpecBreakTime == Init /\ [][NextBreakTime]_vars

(***************************************************************************)
(* One voice section whose paragraph(), sentence() and lang() callbacks    *)
(* append to their scope and to the voice itself, call one another, return *)
(* or throw; build() at any moment.                                        *)
(***************************************************************************)
NextCallback ==
    \/ \E a \in VoiceArgs1 : heap = <<>> /\ SSMLBuilder_voice(a)
    \/ \E v \in Objs, t \in Texts : VoiceBuilder_text(v, t)
    \/ \E v \in Objs : VoiceBuilder_paragraph(v)
    \/ \E v \in Objs : VoiceBuilder_sentence(v)
    \/ \E v \in Objs, l \in LangTags : VoiceBuilder_lang(v, l)
    \/ \E p \in Objs, t \in Texts : ParagraphElement_text(p, t)
    \/ \E s \in Objs, t \in Texts : SentenceElement_text(s, t)
    \/ \E l \in Objs, t \in Texts : LangElement_text(l, t)
    \/ callback_return
    \/ callback_throw
    \/ SSMLBuilder_build

SpecCallback == Init /\ [][NextCallback]_vars

(***************************************************************************)
(* Containers assembled with addElement of any object: an element added to *)
(* several containers or several times, and a container added to itself or *)
(* to one of its descendants; text(), the paragraph() callback, render()   *)
(* and build().                                                            *)
(***************************************************************************)
AnyElements == {Ref(x) : x \in Objs} \cup {breakElementOf(arg) : arg \in BreakArgs}

NextGraph ==
    \/ \E a \in VoiceArgs1 : SSMLBuilder_voice(a)
    \/ \E o \in {ParagraphElement, SentenceElement} \cup {LangElement(l) : l \in LangTags} :
           new_Element(o)
    \/ \E v \in Objs : VoiceBuilder_paragraph(v)
    \/ callback_return
    \/ \E v \in Objs, t \in TextsPlain : VoiceBuilder_text(v, t)
    \/ \E p \in Objs, t \in TextsPlain : ParagraphElement_text(p, t)
    \/ \E p \in Objs : \E e \in AnyElements : ParagraphElement_addElement(p, e)
    \/ \E s \in Objs : \E e \in AnyElements : SentenceElement_addElement(s, e)
    \/ \E l \in Objs : \E e \in AnyElements : LangElement_addElement(l, e)
    \/ \E id \in Objs : Element_render_any(id)
    \/ SSMLBuilder_build_any

SpecGraph == Init /\ [][NextGraph]_vars

(***************************************************************************)
(* One voice section that receives text only from inside the callbacks of  *)
(* its own paragraph(), sentence() and lang() calls.                       *)
(***************************************************************************)
NextInside ==
    \/ \E a \in VoiceArgs1 : heap = <<>> /\ SSMLBuilder_voice(a)
    \/ \E v \in Objs : VoiceBuilder_paragraph(v)
    \/ \E v \in Objs : VoiceBuilder_sentence(v)
    \/ \E v \in Objs, l \in LangTags : VoiceBuilder_lang(v, l)
    \/ \E v \in Objs, t \in Texts :
           (\E k \in 1..Len(stack) : stack[k].owner = v) /\ VoiceBuilder_text(v, t)
    \/ \E v \in Objs, b \in BreakArgs :
           (\E k \in 1..Len(stack) : stack[k].owner = v) /\ VoiceBuilder_break(v, b)
    \/ \E p \in Objs, t \in Texts : ParagraphElement_text(p, t)
    \/ \E s \in Objs, t \in Texts : SentenceElement_text(s, t)
    \/ \E l \in Objs, t \in Texts : LangElement_text(l, t)
    \/ callback_return
    \/ \E id \in Objs : Element_render(id)
    \/ SSMLBuilder_build

SpecInside == Init /\ [][NextInside]_vars

(***************************************************************************)
(* One voice section whose paragraph(), sentence() and lang() callbacks    *)
(* all throw, after appending to their scope or to the voice; the voice    *)
(* receives text from inside its callbacks only.                           *)
(***************************************************************************)
NextThrow ==
    \/ \E a \in VoiceArgs1 : heap = <<>> /\ SSMLBuilder_voice(a)
    \/ \E v \in Objs : VoiceBuilder_paragraph(v)
    \/ \E v \in Objs : VoiceBuilder_sentence(v)
    \/ \E v \in Objs, l \in LangTags : VoiceBuilder_lang(v, l)
    \/ \E v \in Objs, t \in Texts :
           (\E k \in 1..Len(stack) : stack[k].owner = v) /\ VoiceBuilder_text(v, t)
    \/ \E p \in Objs, t \in Texts : ParagraphElement_text(p, t)
    \/ \E s \in Objs, t \in Texts : SentenceElement_text(s, t)
    \/ \E l \in Objs, t \in Texts : LangElement_text(l, t)
    \/ callback_throw
    \/ SSMLBuilder_build

SpecThrow == Init /\ [][NextThrow]_vars

(***************************************************************************)
(* Two voice sections, each with a paragraph made by paragraph(), after    *)
(*     v1.paragraph(p => { saved = p })                                    *)
(*     v2.paragraph(q => { ... })                                          *)
(* where the callback of the second either does nothing or calls           *)
(* q.addElement(saved), so that one paragraph is held by both sections;    *)
(* then text() on the voices and the paragraphs, render() and build().     *)
(***************************************************************************)
InitShared ==
    /\ \E g \in CtorOptions :
           /\ options = SSMLBuilder_constructor(g)
           /\ directiveCalls = [bg |-> <<>>, vc |-> <<>>, given |-> g]
    /\ elements = <<1, 2>>
    /\ _backgroundAudio = None
    /\ _voiceConversion = None
    /\ \E held \in {<<>>, <<Ref(3)>>} :
           /\ heap = <<[VoiceBuilder([name |-> N_Ava, effect |-> None], TRUE)
                           EXCEPT !.content = <<Ref(3)>>],
                       [VoiceBuilder([name |-> N_Andrew, effect |-> None], TRUE)
                           EXCEPT !.content = <<Ref(4)>>],
                       ParagraphElement,
                       [ParagraphElement EXCEPT !.content = held]>>
           /\ appended = <<<<Ref(3)>>, <<Ref(4)>>, <<>>, held>>
    /\ stack = <<>>
    /\ out = NoResult
    /\ buildHistory = "off"

NextShared ==
    \/ \E v \in Objs, t \in TextsPlain : VoiceBuilder_text_within(v, t)
    \/ \E p \in Objs, t \in TextsPlain : ParagraphElement_text_within(p, t)
    \/ \E id \in Objs : Element_render(id)
    \/ SSMLBuilder_build

SpecShared == InitShared /\ [][NextShared]_vars

(***************************************************************************)
(* One voice section whose name, effect and leaves are given the empty     *)
(* string where a caller may write one, next to values that are filled in. *)
(***************************************************************************)
A_mdy == <<"m", "d", "y">>
A_girl == <<"G", "i", "r", "l">>
VoiceArgsBlank ==
    {[name |-> <<>>, effect |-> Some(<<>>)], [name |-> N_Ava, effect |-> Some(E_car)]}
BreakArgsBlank ==
    {[type |-> "string", str |-> <<>>, options |-> None],
     [type |-> "options", str |-> <<>>,
      options |-> Some([strength |-> Some(<<>>), time |-> Some(D_500ms)])]}
EmphasisArgsBlank ==
    {[text |-> T_plain, level |-> Some(<<>>)], [text |-> T_plain, level |-> Some(Lv_strong)]}
AudioArgsBlank ==
    {[src |-> <<>>, fallbackText |-> Some(<<>>)], [src |-> A_src, fallbackText |-> Some(T_plain)]}
ProsodyArgsBlank ==
    {[text |-> T_plain, options |-> <<<<"rate", <<>>>>, <<"pitch", P_high>>>>],
     [text |-> T_plain, options |-> <<<<"volume", <<>>>>>>]}
SayAsArgsBlank ==
    {[text |-> T_plain,
      options |-> [interpretAs |-> <<>>, format |-> Some(<<>>), detail |-> Some(A_mdy)]]}
ExpressAsArgsBlank ==
    {[text |-> T_plain,
      options |-> [style |-> <<>>, styledegree |-> Some(<<>>), role |-> Some(A_girl)]]}
BgArgsBlank ==
    {[src |-> <<>>, volume |-> Some(<<>>), fadein |-> Some(D_2000ms), fadeout |-> Some(<<>>)]}

NextBlank ==
    \/ \E a \in VoiceArgsBlank : elements = <<>> /\ SSMLBuilder_voice(a)
    \/ \E o \in BgArgsBlank : _backgroundAudio = None /\ SSMLBuilder_backgroundAudio(o)
    \/ \E v \in Objs, a \in BreakArgsBlank : VoiceBuilder_break(v, a)
    \/ \E v \in Objs, a \in EmphasisArgsBlank : VoiceBuilder_emphasis(v, a)
    \/ \E v \in Objs, a \in AudioArgsBlank : VoiceBuilder_audio(v, a)
    \/ \E v \in Objs, a \in ProsodyArgsBlank : VoiceBuilder_prosody(v, a)
    \/ \E v \in Objs, a \in SayAsArgsBlank : VoiceBuilder_sayAs(v, a)
    \/ \E v \in Objs, a \in ExpressAsArgsBlank : VoiceBuilder_expressAs(v, a)
    \/ \E id \in Objs : Element_render(id)
    \/ SSMLBuilder_build

SpecBlank == Init /\ [][NextBlank]_vars

(***************************************************************************)
(* Properties                                                              *)
(***************************************************************************)
RECURSIVE InOrder(_, _, _)
\* the renderings of entries es[i..], one after the other with nothing in between
InOrder(h, es, i) ==
    IF i > Len(es) THEN <<>>
    ELSE (IF es[i].kind = "text" THEN escapeXml(es[i].text) ELSE render(h, es[i]))
             \o InOrder(h, es, i + 1)

\* the opening and the closing tag of a container object
OpenTag(o) ==
    CASE o.kind = "voice" ->
             L_voiceOpen \o L_nameAttr \o o.name \o QUOTE
                 \o (IF Truthy(o.effect) THEN <<" ">> \o L_effectAttr \o o.effect[1] \o QUOTE
                     ELSE <<>>) \o <<">">>
      [] o.kind = "p" -> L_pOpen
      [] o.kind = "s" -> L_sOpen
      [] o.kind = "lang" -> L_langOpen \o o.lang \o QUOTE \o <<">">>
CloseTag(o) ==
    CASE o.kind = "voice" -> L_voiceClose
      [] o.kind = "p" -> L_pClose
      [] o.kind = "s" -> L_sClose
      [] o.kind = "lang" -> L_langClose

\* C1: each content list is exactly the history of the entries appended to it (nothing
\* is reordered or removed), and a container renders as its opening tag, the renderings
\* of those entries in append order with no separator, and its closing tag.
C1_AppendOrder ==
    \A id \in Objs :
        /\ heap[id].content = appended[id]
        /\ render(heap, Ref(id))
               = OpenTag(heap[id]) \o InOrder(heap, appended[id], 1) \o CloseTag(heap[id])

\* a scope element holding two different entries, one of them an element
C1_Witness ==
    \E id \in Objs :
        /\ heap[id].kind # "voice"
        /\ Len(appended[id]) >= 2
        /\ appended[id][1].kind # appended[id][2].kind

\* C2: a build() or render() that directly follows the same call on the same object
\* returns the same string, and neither call changes the sections, the content lists,
\* the directives or the options.
C2_RenderIdempotent ==
    [][(/\ out.kind = "ok" /\ out.op \in {"build", "render"}
        /\ out'.kind = "ok" /\ out'.op = out.op /\ out'.target = out.target)
       => /\ out'.val = out.val
          /\ UNCHANGED <<options, elements, _backgroundAudio, _voiceConversion, heap>>]_vars

\* build() has returned a document with a section that holds a nested element
C2_Witness ==
    /\ out.kind = "ok" /\ out.op = "build" /\ out.target = 0
    /\ \E k \in 1..Len(elements) :
           \E j \in 1..Len(heap[elements[k]].content) :
               heap[elements[k]].content[j].kind = "ref"

\* the sections registered with the root, in registration order
Registered == {elements[k] : k \in 1..Len(elements)}

\* what build() of the root returns in the current state
RootDocument ==
    SSMLBuilder_build_result(options, _backgroundAudio, _voiceConversion, elements, heap)

\* C3: build() on a builder that voice() returned does not throw and returns the string
\* the root's build() returns in the same state: directives and all sections, whenever
\* they were registered.
C3_SubBuilderBuild ==
    (out.op = "build" /\ out.target \in Registered)
        => (out.kind = "ok" /\ out.val = RootDocument)

\* the first section's builder has built a document after a second section and both
\* directives were added
C3_Witness ==
    /\ out.op = "build" /\ out.kind = "ok"
    /\ Len(elements) >= 2 /\ out.target = elements[1]
    /\ heap[elements[2]].name # heap[elements[1]].name
    /\ _backgroundAudio # None /\ _voiceConversion # None

\* voice builders that hold no root
Standalone == {v \in Voices : ~heap[v].parent}

\* C4: on a VoiceBuilder without a parent, build() and voice() throw, whatever its content
\* is, and change nothing; render() returns its voice element with its content, and
\* text(), break() and paragraph() are accepted.
C4_StandaloneThrows ==
    /\ [](/\ (out.op \in {"build", "voice"} /\ out.target \in Standalone)
                => out.kind = "throw"
          /\ (out.op = "render" /\ out.target \in Standalone)
                => /\ out.kind = "ok"
                   /\ out.val = OpenTag(heap[out.target])
                                    \o InOrder(heap, appended[out.target], 1)
                                    \o CloseTag(heap[out.target])
          /\ \A v \in Standalone :
                CanAppend => /\ ENABLED VoiceBuilder_text(v, T_plain)
                             /\ \A b \in BreakArgs : ENABLED VoiceBuilder_break(v, b)
                             /\ CanConstruct => ENABLED VoiceBuilder_paragraph(v))
    /\ [][out'.kind = "throw"
             => UNCHANGED <<options, elements, _backgroundAudio, _voiceConversion, heap,
                            stack, appended>>]_vars

\* build() has thrown on a standalone builder that holds text and a nested paragraph
C4_Witness ==
    /\ out.kind = "throw" /\ out.op = "build" /\ out.val = L_errBuild
    /\ out.target \in Standalone
    /\ \E i, j \in 1..Len(heap[out.target].content) :
           /\ heap[out.target].content[i].kind = "text"
           /\ heap[out.target].content[j].kind = "ref"

\* the characters of s that stand outside tags: position i is inside a tag when more
\* "<" stand at or before it than ">" stand before it
CharData(s) ==
    LET lts == {i \in 1..Len(s) : s[i] = "<"}
        gts == {i \in 1..Len(s) : s[i] = ">"}
        inTag(i) == Cardinality({j \in lts : j <= i}) > Cardinality({j \in gts : j < i})
    IN  Flatten([i \in 1..Len(s) |-> IF inTag(i) THEN <<>> ELSE <<s[i]>>], 1, Len(s))

Entities ==
    {<<L_amp, "&">>, <<L_lt, "<">>, <<L_gt, ">">>, <<L_quot, "\"">>, <<L_apos, "'">>}

\* the entities that s carries at position i (at most one)
EntityAt(s, i) ==
    IF i < 1 \/ i > Len(s) \/ s[i] # "&" THEN {}
    ELSE {e \in Entities :
             i + Len(e[1]) - 1 <= Len(s) /\ SubSeq(s, i, i + Len(e[1]) - 1) = e[1]}

\* s with each of the five entities read back as the character it stands for
decodeEntities(s) ==
    LET piece(i) ==
            IF EntityAt(s, i) # {} THEN <<(CHOOSE e \in EntityAt(s, i) : TRUE)[2]>>
            ELSE IF \E j \in (i - 5)..(i - 1) :
                        \E e \in EntityAt(s, j) : i <= j + Len(e[1]) - 1
                 THEN <<>>
                 ELSE <<s[i]>>
    IN  Flatten([i \in 1..Len(s) |-> piece(i)], 1, Len(s))

RECURSIVE RawText(_, _, _)
\* the text runs of entries es[i..] and of the containers nested in them, as given to text()
RawText(h, es, i) ==
    IF i > Len(es) THEN <<>>
    ELSE (CASE es[i].kind = "text" -> es[i].text
            [] es[i].kind = "ref" -> RawText(h, h[es[i].id].content, 1)
            [] OTHER -> <<>>) \o RawText(h, es, i + 1)

RECURSIVE SectionsText(_)
SectionsText(k) ==
    IF k > Len(elements) THEN <<"\n">>
    ELSE L_indent \o RawText(heap, heap[elements[k]].content, 1) \o SectionsText(k + 1)

\* C5: text() stores its argument unchanged, and in the document build() returns every
\* text run, at whatever depth, is escaped once: reading the entities of the character
\* data back gives the texts as they were passed, in document order.
C5_EscapedOnce ==
    /\ \A id \in Objs : \A j \in 1..Len(heap[id].content) :
           heap[id].content[j].kind = "text" => heap[id].content[j].text \in Texts1
    /\ (out.op = "build" /\ out.kind = "ok")
           => decodeEntities(CharData(out.val)) = SectionsText(1)

\* a document was built in which a text with the five reserved characters sits in a
\* paragraph, sentence or lang element of a section
C5_Witness ==
    /\ out.op = "build" /\ out.kind = "ok"
    /\ \E id \in Objs :
           /\ heap[id].kind # "voice"
           /\ \E k \in 1..Len(elements) : id \in Children(heap, elements[k])
           /\ \E j \in 1..Len(heap[id].content) :
                  /\ heap[id].content[j] = TextEntry(T_test)
                  /\ escapeXml(T_test) = T_testEscaped

Reserved == {"&", "<", ">", "\"", "'"}

\* s without the characters in set cs
Without(s, cs) == Flatten([i \in 1..Len(s) |-> IF s[i] \in cs THEN <<>> ELSE <<s[i]>>], 1, Len(s))

\* s without the entities it carries
WithoutEntities(s) ==
    LET covered(i) == \E j \in (i - 5)..i : \E e \in EntityAt(s, j) : i <= j + Len(e[1]) - 1
    IN  Flatten([i \in 1..Len(s) |-> IF covered(i) THEN <<>> ELSE <<s[i]>>], 1, Len(s))

EscapeReturned == out.kind = "ok" /\ out.op \in {"SSMLElement.escapeXml", "escapeXml"}

\* C6: for every text T, escapeXml(T) holds none of < > " ' and holds & only as the
\* first character of one of the five entities; reading the five entities back gives T;
\* and the characters other than the five reserved ones are kept, in order, unchanged.
C6_EscapeRoundTrip ==
    EscapeReturned =>
        /\ \A i \in 1..Len(out.val) : out.val[i] \notin (Reserved \ {"&"})
        /\ \A i \in 1..Len(out.val) : out.val[i] = "&" => EntityAt(out.val, i) # {}
        /\ decodeEntities(out.val) = out.arg
        /\ WithoutEntities(out.val) = Without(out.arg, Reserved)

\* the method returned for the text of the test 'should escape special characters',
\* which mixes the five reserved characters with others
C6_Witness ==
    /\ out.kind = "ok" /\ out.op = "SSMLElement.escapeXml"
    /\ out.arg = T_test
    /\ out.val = T_testEscaped
    /\ Reserved \subseteq {out.arg[i] : i \in 1..Len(out.arg)}

\* the positions of s at which pat starts
Occurrences(s, pat) ==
    {i \in 1..(Len(s) - Len(pat) + 1) : SubSeq(s, i, i + Len(pat) - 1) = pat}

\* the tag of s that opens at position i, up to and including its ">"
TagAt(s, i) ==
    SubSeq(s, i, CHOOSE j \in i..Len(s) : s[j] = ">" /\ \A k \in i..(j - 1) : s[k] # ">")

\* the positions P in increasing order
Ascending(P) ==
    CHOOSE q \in [1..Cardinality(P) -> P] : \A a, b \in 1..Cardinality(P) : a < b => q[a] < q[b]

\* the tags of s that start with open, in document order
TagsOf(s, open) ==
    LET q == Ascending(Occurrences(s, open)) IN [k \in DOMAIN q |-> TagAt(s, q[k])]

\* the attribute values that a backgroundAudio() call gave
BgValues(o) ==
    {o.src} \cup {o[f][1] : f \in {g \in {"volume", "fadein", "fadeout"} : o[g] # None}}

BuildReturned == out.op = "build" /\ out.kind = "ok"

\* C7: whatever calls came before, the document build() returns holds at most one
\* mstts:backgroundaudio and at most one mstts:voiceconversion element, each with the
\* values of the latest call of its directive and no other; a repeated call is accepted,
\* and no value that the latest call replaced occurs anywhere in the document.
C7_LastDirectiveWins ==
    /\ \A o \in BgArgs : ENABLED SSMLBuilder_backgroundAudio(o)
    /\ \A u \in VcArgs : ENABLED SSMLBuilder_voiceConversion(u)
    /\ BuildReturned =>
           /\ TagsOf(out.val, L_bgOpen) =
                  IF directiveCalls.bg = <<>> THEN <<>>
                  ELSE <<BackgroundAudioElement_render(directiveCalls.bg[1])>>
           /\ TagsOf(out.val, L_vcOpen) =
                  IF directiveCalls.vc = <<>> THEN <<>>
                  ELSE <<VoiceConversionElement_render(directiveCalls.vc[1])>>
           /\ Len(directiveCalls.bg) = 2 =>
                  \A x \in BgValues(directiveCalls.bg[2]) \ BgValues(directiveCalls.bg[1]) :
                      Occurrences(out.val, x) = {}
           /\ Len(directiveCalls.vc) = 2 /\ directiveCalls.vc[2] # directiveCalls.vc[1] =>
                  Occurrences(out.val, directiveCalls.vc[2]) = {}

\* a document was built after each directive was set twice, the second backgroundAudio()
\* call giving fewer attributes than the first and the second voiceConversion() call
\* another url, with a voice section registered
C7_Witness ==
    /\ BuildReturned /\ elements # <<>>
    /\ Len(directiveCalls.bg) = 2
    /\ directiveCalls.bg[2].volume # None /\ directiveCalls.bg[1].volume = None
    /\ Len(directiveCalls.vc) = 2 /\ directiveCalls.vc[2] # directiveCalls.vc[1]

\* the children build() is to write, as their opening tags: the directives that were
\* set, background audio before voice conversion, then the sections as registered
ExpectedChildren_directives ==
    (IF directiveCalls.bg = <<>> THEN <<>>
     ELSE <<BackgroundAudioElement_render(directiveCalls.bg[1])>>)
    \o (IF directiveCalls.vc = <<>> THEN <<>>
        ELSE <<VoiceConversionElement_render(directiveCalls.vc[1])>>)

ExpectedChildren ==
    ExpectedChildren_directives \o [k \in 1..Len(elements) |-> OpenTag(heap[elements[k]])]

\* C8: in every document build() returns, whatever the order of the calls before it,
\* the children of speak are the background-audio directive (if set), the
\* voice-conversion directive (if set) and the voice sections in registration order;
\* each child follows a newline and four spaces, the first one right after the speak
\* tag, and the closing tag follows a newline.
C8_ChildOrder ==
    BuildReturned =>
        LET doc == out.val
            kids == Ascending(Occurrences(doc, L_indent))
            close == Len(doc) - Len(L_speakClose) + 1
        IN  /\ Len(kids) = Len(ExpectedChildren)
            /\ \A k \in DOMAIN kids :
                   TagAt(doc, kids[k] + Len(L_indent)) = ExpectedChildren[k]
            /\ \A i \in Occurrences(doc, <<"<", "m", "s", "t", "t", "s", ":">>)
                         \cup Occurrences(doc, L_voiceOpen) :
                   \E k \in DOMAIN kids : i = kids[k] + Len(L_indent)
            /\ kids # <<>> => kids[1] = Len(TagAt(doc, 1)) + 1
            /\ L_indent = <<"\n", " ", " ", " ", " ">>
            /\ SubSeq(doc, close, Len(doc)) = L_speakClose
            /\ L_speakClose[1] = "\n"
            /\ Occurrences(doc, <<"\n">>) = {kids[k] : k \in DOMAIN kids} \cup {close}

\* a document was built with both directives set and two sections registered
C8_Witness ==
    /\ BuildReturned /\ out.target = 0
    /\ directiveCalls.bg # <<>> /\ directiveCalls.vc # <<>>
    /\ Len(elements) >= 2
    /\ \E k \in 1..Len(elements) : heap[elements[k]].content # <<>>

\* the voice elements of s in document order, each from its opening tag to the first
\* closing tag after it
VoiceElements(s) ==
    LET q == Ascending(Occurrences(s, L_voiceOpen))
        closeAfter(i) == CHOOSE j \in Occurrences(s, L_voiceClose) :
                             j > i /\ \A k \in Occurrences(s, L_voiceClose) : k > i => j <= k
    IN  [k \in DOMAIN q |-> SubSeq(s, q[k], closeAfter(q[k]) + Len(L_voiceClose) - 1)]

\* the builders that voice() calls made, in call order (object ids are given in the
\* order of construction)
VoiceCalls == Ascending({v \in Voices : heap[v].parent})

\* C9: the document holds one voice element per voice() call made so far, on the root
\* or through a sub-builder, in call order, each with the attributes of its call and
\* with exactly the entries appended to its own builder; a call returns a new builder,
\* registered last, also when its name is registered already.
C9_OneSectionPerVoiceCall ==
    LET els == VoiceElements(RootDocument) IN
    /\ Len(els) = Len(VoiceCalls)
    /\ \A k \in DOMAIN els :
           els[k] = OpenTag(heap[VoiceCalls[k]])
                        \o InOrder(heap, appended[VoiceCalls[k]], 1) \o L_voiceClose
    /\ BuildReturned => VoiceElements(out.val) = els
    /\ (out.op = "voice" /\ out.kind = "ok") =>
           /\ out.ret = VoiceCalls[Len(VoiceCalls)]
           /\ heap[out.ret].content = <<>>

\* a sub-builder's build() returned the document after voice() was called twice with
\* the same name and effect, and the two builders were given different content
C9_Witness ==
    /\ BuildReturned /\ out.target = 2
    /\ Len(VoiceCalls) = 2
    /\ heap[1].name = heap[2].name /\ heap[1].effect = heap[2].effect
    /\ heap[1].content # heap[2].content
    /\ Len(VoiceElements(out.val)) = 2

\* the document that holds everything called for so far: the directives as last set,
\* then one voice element per voice() call with all the entries appended to it
DocumentOfHistory(speakTag) ==
    LET sections == [k \in 1..Len(VoiceCalls) |->
                        OpenTag(heap[VoiceCalls[k]])
                            \o InOrder(heap, appended[VoiceCalls[k]], 1) \o L_voiceClose]
        kids == ExpectedChildren_directives \o sections
    IN  speakTag \o Flatten([k \in DOMAIN kids |-> L_indent \o kids[k]], 1, Len(kids))
            \o L_speakClose

\* C10: build() closes nothing. Once a build() has returned, text(), break(), voice()
\* and the directive calls are accepted as before it (no call throws, and each is
\* enabled whenever the bounds leave room), and every build(), the first or a later
\* one, returns the document of everything called for up to then: what was there at
\* the earlier build() and what was added since.
C10_BuildNotFinal ==
    /\ out.kind # "throw"
    /\ buildHistory \in {"built", "rebuilt"} =>
           /\ \A o \in BgArgs1 : ENABLED SSMLBuilder_backgroundAudio(o)
           /\ \A u \in VcArgs1 : ENABLED SSMLBuilder_voiceConversion(u)
           /\ CanConstruct =>
                  /\ \A a \in VoiceArgs1 : ENABLED SSMLBuilder_voice(a)
                  /\ \A v \in Voices, a \in VoiceArgs1 : ENABLED VoiceBuilder_voice(v, a)
           /\ CanAppend =>
                  \A v \in Voices :
                      /\ \A t \in TextsPlain : ENABLED VoiceBuilder_text(v, t)
                      /\ \A b \in BreakArgs : ENABLED VoiceBuilder_break(v, b)
    /\ BuildReturned =>
           /\ buildHistory \in {"built", "rebuilt"}
           /\ SubSeq(out.val, 1, Len(L_speakOpen)) = L_speakOpen
           /\ out.val = DocumentOfHistory(TagAt(out.val, 1))

\* the root's build() returned a second time, after a section was given content and a
\* directive was set, with something of it added after the first build()
C10_Witness ==
    /\ BuildReturned /\ out.target = 0
    /\ buildHistory = "rebuilt"
    /\ directiveCalls.bg # <<>>
    /\ \E k \in 1..Len(elements) : Len(appended[elements[k]]) >= 1


(***************************************************************************)
(* Reading a document as markup.                                           *)
(***************************************************************************)
\* where a reader of markup stands after character c: in character data, inside a tag,
\* or inside an attribute value delimited by double or by single quotes
scanStep(m, c) ==
    CASE m = "text" /\ c = "<" -> "tag"
      [] m = "tag" /\ c = ">" -> "text"
      [] m = "tag" /\ c = "\"" -> "quote"
      [] m = "tag" /\ c = "'" -> "apos"
      [] m = "quote" /\ c = "\"" -> "tag"
      [] m = "apos" /\ c = "'" -> "tag"
      [] OTHER -> m

RECURSIVE Modes(_, _, _, _)
\* the reader's mode after each of the characters s[lo..hi], m being its mode before
\* s[lo]
Modes(s, lo, hi, m) ==
    IF lo > hi THEN <<>>
    ELSE IF lo = hi THEN <<scanStep(m, s[lo])>>
    ELSE LET mid == (lo + hi) \div 2
             left == Modes(s, lo, mid, m)
         IN  left \o Modes(s, mid + 1, hi, left[Len(left)])

ScanModes(s) == Modes(s, 1, Len(s), "text")

ModeBefore(ms, i) == IF i = 1 THEN "text" ELSE ms[i - 1]

RECURSIVE SortedSeq(_)
\* the numbers of P in increasing order
SortedSeq(P) ==
    IF P = {} THEN <<>>
    ELSE LET m == CHOOSE x \in P : \A y \in P : x <= y IN <<m>> \o SortedSeq(P \ {m})

\* the tags of s in document order: kind (open, close, empty), name, and the number of
\* attribute values
Skeleton(s) ==
    LET ms == ScanModes(s)
        starts == SortedSeq({i \in 1..Len(s) : s[i] = "<" /\ ModeBefore(ms, i) = "text"})
        ends == {i \in 1..Len(s) : s[i] = ">" /\ ModeBefore(ms, i) = "tag"}
        endOf(a) == IF \E j \in ends : j > a
                    THEN CHOOSE j \in ends : j > a /\ \A k \in ends : k > a => j <= k
                    ELSE Len(s)
        tag(a) ==
            LET b == endOf(a)
                closing == a < b /\ s[a + 1] = "/"
                n0 == IF closing THEN a + 2 ELSE a + 1
                stops == {j \in n0..b : s[j] \in {" ", "/", ">"}}
                n1 == IF stops = {} THEN b
                      ELSE (CHOOSE j \in stops : \A k \in stops : j <= k) - 1
            IN  [kind |-> IF closing THEN "close"
                          ELSE IF a < b /\ s[b - 1] = "/" THEN "empty" ELSE "open",
                 name |-> SubSeq(s, n0, n1),
                 attrs |-> Cardinality({j \in a..b : s[j] \in {"\"", "'"}
                                                      /\ ModeBefore(ms, j) = "tag"}),
                 from |-> a, to |-> b]
    IN  [k \in 1..Len(starts) |-> tag(starts[k])]

\* a skeleton without the positions of its tags
Shape(sk) == [k \in 1..Len(sk) |-> [kind |-> sk[k].kind, name |-> sk[k].name,
                                     attrs |-> sk[k].attrs]]

RECURSIVE Balanced(_, _, _)
\* tags sk[i..] close the open elements st in nesting order, and the outermost element
\* is closed by the last tag
Balanced(sk, i, st) ==
    IF i > Len(sk) THEN st = <<>>
    ELSE CASE sk[i].kind = "open" ->
                  /\ (st = <<>> => i = 1)
                  /\ Balanced(sk, i + 1, Append(st, sk[i].name))
           [] sk[i].kind = "close" ->
                  /\ st # <<>>
                  /\ st[Len(st)] = sk[i].name
                  /\ (Len(st) = 1 => i = Len(sk))
                  /\ Balanced(sk, i + 1, SubSeq(st, 1, Len(st) - 1))
           [] OTHER -> st # <<>> /\ Balanced(sk, i + 1, st)

\* s is one well-formed element: it starts with the root's opening tag and ends with its
\* closing tag, tags nest, "<" stands only at the start of a tag, "&" only at the start
\* of an entity, every "=" of a tag is followed by an attribute value within its own
\* pair of double quotes, and the value is followed by a space or by the end of the tag
WellFormed(s) ==
    LET ms == ScanModes(s)
        sk == Skeleton(s)
    IN  /\ Len(s) > 0
        /\ ms[Len(s)] = "text"
        /\ \A i \in 1..Len(s) : s[i] = "<" => ModeBefore(ms, i) = "text"
        /\ \A i \in 1..Len(s) : s[i] = "&" => EntityAt(s, i) # {}
        /\ \A i \in 1..Len(s) : s[i] = "'" => ModeBefore(ms, i) # "tag"
        /\ \A i \in 1..Len(s) :
               s[i] = "\"" /\ ModeBefore(ms, i) = "tag" => i > 1 /\ s[i - 1] = "="
        /\ \A i \in 1..Len(s) :
               s[i] = "=" /\ ModeBefore(ms, i) = "tag" => i < Len(s) /\ s[i + 1] = "\""
        /\ \A i \in 1..Len(s) :
               s[i] = "\"" /\ ModeBefore(ms, i) = "quote" =>
                   i < Len(s) /\ s[i + 1] \in {" ", "/", ">", "?"}
        /\ Len(sk) > 0
        /\ sk[1].from = 1
        /\ sk[Len(sk)].to = Len(s)
        /\ \A k \in 1..Len(sk) : sk[k].name # <<>>
        /\ Balanced(sk, 1, <<>>)

OptVals(o) == IF o = None THEN {} ELSE {o[1]}

\* the argument values that entry or object e writes as attribute values
AttrValuesOf(e) ==
    CASE e.kind = "voice" -> {e.name} \cup OptVals(e.effect)
      [] e.kind = "lang" -> {e.lang}
      [] e.kind = "break" ->
             IF e.options = None THEN {}
             ELSE OptVals(e.options[1].strength) \cup OptVals(e.options[1].time)
      [] e.kind = "emphasis" -> OptVals(e.level)
      [] e.kind = "silence" -> {e.options.type, e.options.value}
      [] e.kind = "prosody" -> {e.options[k][2] : k \in DOMAIN e.options}
      [] e.kind = "expressAs" ->
             {e.options.style} \cup OptVals(e.options.styledegree) \cup OptVals(e.options.role)
      [] e.kind = "sayAs" ->
             {e.options.interpretAs} \cup OptVals(e.options.format)
                 \cup OptVals(e.options.detail)
      [] e.kind = "bookmark" -> {e.mark}
      [] e.kind = "audio" -> {e.src}
      [] e.kind = "sub" -> {e.alias}
      [] e.kind = "phoneme" -> {e.options.alphabet, e.options.ph}
      [] e.kind = "lexicon" -> {e.uri}
      [] e.kind = "audioDuration" -> {e.value}
      [] e.kind = "ttsEmbedding" -> {e.speakerProfileId}
      [] e.kind = "viseme" -> {e.type}
      [] OTHER -> {}

\* every argument value that the document writes as an attribute value
AttrValues ==
    {options.version, options.xmlns, options.xmlnsMstts, options.lang}
        \cup (IF _backgroundAudio = None THEN {} ELSE BgValues(_backgroundAudio[1]))
        \cup OptVals(_voiceConversion)
        \cup UNION {AttrValuesOf(heap[i]) : i \in Objs}
        \cup UNION {UNION {AttrValuesOf(heap[i].content[k]) : k \in 1..Len(heap[i].content)} :
                        i \in Objs}

\* the payloads given to math()
MathPayloads ==
    UNION {{heap[i].content[k].mathML :
               k \in {j \in 1..Len(heap[i].content) : heap[i].content[j].kind = "math"}} :
              i \in Objs}

\* v holds none of the characters that end an attribute value or start markup
Sound(v) == \A i \in 1..Len(v) : v[i] \notin {"\"", "<", "&"}

plainStr(v) == IF v = <<>> THEN v ELSE A_m1
plainOpt(o) == IF Truthy(o) THEN Some(A_m1) ELSE o

\* entry e with a plain identifier in the place of each attribute value it was given,
\* and with no math payload unless math is set
PlainEntry(e, math) ==
    CASE e.kind = "break" ->
             IF e.options = None THEN e
             ELSE BreakElement(Some([strength |-> plainOpt(e.options[1].strength),
                                     time |-> plainOpt(e.options[1].time)]))
      [] e.kind = "emphasis" -> [e EXCEPT !.level = plainOpt(@)]
      [] e.kind = "silence" ->
             [e EXCEPT !.options = [type |-> plainStr(@.type), value |-> plainStr(@.value)]]
      [] e.kind = "prosody" ->
             [e EXCEPT !.options = [k \in DOMAIN @ |-> <<@[k][1], plainStr(@[k][2])>>]]
      [] e.kind = "expressAs" ->
             [e EXCEPT !.options = [style |-> plainStr(@.style),
                                    styledegree |-> plainOpt(@.styledegree),
                                    role |-> plainOpt(@.role)]]
      [] e.kind = "sayAs" ->
             [e EXCEPT !.options = [interpretAs |-> plainStr(@.interpretAs),
                                    format |-> plainOpt(@.format),
                                    detail |-> plainOpt(@.detail)]]
      [] e.kind = "bookmark" -> [e EXCEPT !.mark = plainStr(@)]
      [] e.kind = "audio" -> [e EXCEPT !.src = plainStr(@)]
      [] e.kind = "sub" -> [e EXCEPT !.alias = plainStr(@)]
      [] e.kind = "phoneme" ->
             [e EXCEPT !.options = [alphabet |-> plainStr(@.alphabet), ph |-> plainStr(@.ph)]]
      [] e.kind = "lexicon" -> [e EXCEPT !.uri = plainStr(@)]
      [] e.kind = "math" -> IF math THEN e ELSE [e EXCEPT !.mathML = <<>>]
      [] e.kind = "audioDuration" -> [e EXCEPT !.value = plainStr(@)]
      [] e.kind = "ttsEmbedding" -> [e EXCEPT !.speakerProfileId = plainStr(@)]
      [] e.kind = "viseme" -> [e EXCEPT !.type = plainStr(@)]
      [] OTHER -> e

PlainHeap(h, math) ==
    [i \in DOMAIN h |->
        [h[i] EXCEPT !.name = plainStr(@), !.effect = plainOpt(@), !.lang = plainStr(@),
                     !.content = [k \in DOMAIN @ |-> PlainEntry(@[k], math)]]]

\* the document of the same calls made with plain identifiers as attribute values
PlainDocument(math) ==
    SSMLBuilder_build_result(
        [k \in DOMAIN options |-> plainStr(options[k])],
        IF _backgroundAudio = None THEN None
        ELSE Some([src |-> plainStr(_backgroundAudio[1].src),
                   volume |-> plainOpt(_backgroundAudio[1].volume),
                   fadein |-> plainOpt(_backgroundAudio[1].fadein),
                   fadeout |-> plainOpt(_backgroundAudio[1].fadeout)]),
        IF _voiceConversion = None THEN None ELSE Some(plainStr(_voiceConversion[1])),
        elements, PlainHeap(heap, math))

\* C11 as stated: whatever the arguments, the document build() returns is one
\* well-formed speak element, and its tags and their attributes are those of the calls:
\* no argument value ends an attribute or opens or closes a tag.
C11_WellFormedAlways ==
    BuildReturned =>
        /\ WellFormed(out.val)
        /\ Shape(Skeleton(out.val)) = Shape(Skeleton(PlainDocument(FALSE)))

\* C11, amended: when no argument written as an attribute value holds a double quote,
\* a "<" or a "&", and every math payload is itself one well-formed element, the
\* document build() returns is one well-formed speak element whose tags and attributes,
\* outside the math payloads, are those of the calls; text arguments may hold anything.
C11_WellFormedWhenSound ==
    (BuildReturned /\ (\A v \in AttrValues : Sound(v))
                   /\ (\A m \in MathPayloads : WellFormed(m))) =>
        /\ WellFormed(out.val)
        /\ Skeleton(out.val)[1].name = <<"s", "p", "e", "a", "k">>
        /\ Shape(Skeleton(out.val)) = Shape(Skeleton(PlainDocument(TRUE)))

\* a document was built from a section that holds a math payload and a text with all
\* five reserved characters, every attribute value being sound
C11_Witness ==
    /\ BuildReturned
    /\ \A v \in AttrValues : Sound(v)
    /\ MathPayloads = {M_ok}
    /\ \E i \in Voices : \E k \in 1..Len(heap[i].content) :
           heap[i].content[k] = TextEntry(T_specials)

AttrPairs(t) ==
    LET ms == ScanModes(t)
        opens == SortedSeq({i \in 1..Len(t) : t[i] = "\"" /\ ModeBefore(ms, i) = "tag"})
        closes == SortedSeq({i \in 1..Len(t) : t[i] = "\"" /\ ModeBefore(ms, i) = "quote"})
        nameFrom(q) == 1 + CHOOSE j \in 1..q : t[j] = " " /\ \A k \in (j + 1)..q : t[k] # " "
    IN  [k \in 1..Len(closes) |->
            <<SubSeq(t, nameFrom(opens[k]), opens[k] - 2),
              SubSeq(t, opens[k] + 1, closes[k] - 1)>>]

ExpectedBreakAttrs(o) ==
    IF o = None THEN <<>>
    ELSE (IF Truthy(o[1].strength)
          THEN <<<<<<"s", "t", "r", "e", "n", "g", "t", "h">>, o[1].strength[1]>>>>
          ELSE <<>>)
         \o (IF Truthy(o[1].time) THEN <<<<<<"t", "i", "m", "e">>, o[1].time[1]>>>> ELSE <<>>)

\* the steps of break(arg) on object x, whichever class x belongs to
BreakStep(x, arg) ==
    VoiceBuilder_break(x, arg) \/ ParagraphElement_break(x, arg) \/ SentenceBuilder_break(x, arg)

\* C14: each break in a rendered voice, paragraph or sentence is the bare tag <break/>
\* when it was given no options (or no value but the empty string), and otherwise a
\* self-closing break tag with exactly the attributes given, strength before time; and
\* a step of break(s) with a string s is a step of break({time: s}), and conversely.
C14_BreakForms ==
    /\ [](out.op = "render" /\ out.kind = "ok" =>
             LET es == appended[out.target]
                 sk == Skeleton(out.val)
             IN  /\ Len(sk) = Len(es) + 2
                 /\ \A k \in 1..Len(es) :
                        LET t == SubSeq(out.val, sk[k + 1].from, sk[k + 1].to)
                        IN  /\ sk[k + 1].kind = "empty"
                            /\ sk[k + 1].name = <<"b", "r", "e", "a", "k">>
                            /\ AttrPairs(t) = ExpectedBreakAttrs(es[k].options)
                            /\ (ExpectedBreakAttrs(es[k].options) = <<>> =>
                                   t = <<"<", "b", "r", "e", "a", "k", "/", ">">>))
    /\ [][\A x \in Objs : \A t \in {D_500ms, <<>>} :
              BreakStep(x, [type |-> "string", str |-> t, options |-> None])
                  <=> BreakStep(x, [type |-> "options", str |-> <<>>,
                                    options |-> Some([strength |-> None, time |-> Some(t)])])]_vars

\* an object was rendered that holds a break given both a strength and a time and a
\* break given a time only
C14_Witness ==
    /\ out.op = "render" /\ out.kind = "ok"
    /\ \E k1, k2 \in 1..Len(appended[out.target]) :
           /\ appended[out.target][k1] =
                  BreakElement(Some([strength |-> Some(Lv_strong), time |-> Some(D_500ms)]))
           /\ appended[out.target][k2] =
                  BreakElement(Some([strength |-> None, time |-> Some(D_500ms)]))

ProsodyKeys == <<"pitch", "contour", "range", "rate", "volume">>
ProsodyKeyChars ==
    [pitch |-> <<"p", "i", "t", "c", "h">>, contour |-> <<"c", "o", "n", "t", "o", "u", "r">>,
     range |-> <<"r", "a", "n", "g", "e">>, rate |-> <<"r", "a", "t", "e">>,
     volume |-> <<"v", "o", "l", "u", "m", "e">>]

\* the attributes a prosody element is to carry: pitch, contour, range, rate, volume,
\* each when the options hold a value for it other than the empty string
ExpectedProsodyAttrs(o) ==
    Flatten([i \in 1..5 |->
                IF Truthy(Prop(o, ProsodyKeys[i]))
                THEN <<<<ProsodyKeyChars[ProsodyKeys[i]], Prop(o, ProsodyKeys[i])[1]>>>>
                ELSE <<>>], 1, 5)

RateAndPitch ==
    UNION {{heap[v].content[k] :
               k \in {j \in 1..Len(heap[v].content) :
                         /\ heap[v].content[j].kind = "prosody"
                         /\ {heap[v].content[j].options[i][1] :
                                i \in 1..Len(heap[v].content[j].options)} = {"rate", "pitch"}
                         /\ \A i \in 1..Len(heap[v].content[j].options) :
                                heap[v].content[j].options[i][2] # <<>>}} :
              v \in {elements[i] : i \in 1..Len(elements)}}

\* <prosody k1="v1" k2="v2">text</prosody>
ProsodyWith(k1, v1, k2, v2, text) ==
    <<"<", "p", "r", "o", "s", "o", "d", "y", " ">> \o ProsodyKeyChars[k1] \o <<"=", "\"">>
        \o v1 \o <<"\"", " ">> \o ProsodyKeyChars[k2] \o <<"=", "\"">> \o v2 \o <<"\"", ">">>
        \o escapeXml(text) \o <<"<", "/", "p", "r", "o", "s", "o", "d", "y", ">">>

EntriesOf(k) ==
    UNION {{heap[v].content[j] :
               j \in {i \in 1..Len(heap[v].content) : heap[v].content[i].kind = k}} :
              v \in {elements[i] : i \in 1..Len(elements)}}

\* the audio elements of a built document hold their URL as given and their fallback
\* text escaped, the bookmarks their mark as given
AudioAndBookmarkAsGiven ==
    /\ \A e \in EntriesOf("audio") :
           Occurrences(out.val,
               <<"<", "a", "u", "d", "i", "o", " ", "s", "r", "c", "=", "\"">> \o e.src
                   \o <<"\"", ">">>
                   \o (IF Truthy(e.fallbackText) THEN escapeXml(e.fallbackText[1]) ELSE <<>>)
                   \o <<"<", "/", "a", "u", "d", "i", "o", ">">>) # {}
    /\ \A e \in EntriesOf("bookmark") :
           Occurrences(out.val,
               <<"<", "b", "o", "o", "k", "m", "a", "r", "k", " ", "m", "a", "r", "k", "=", "\"">>
                   \o e.mark \o <<"\"", "/", ">">>) # {}

\* <sub alias="alias">body</sub>
SubWith(alias, body) ==
    <<"<", "s", "u", "b", " ", "a", "l", "i", "a", "s", "=", "\"">> \o alias \o <<"\"", ">">>
        \o body \o <<"<", "/", "s", "u", "b", ">">>

\* C17 as stated: in the document build() returns the audio fallback text and the sub
\* alias are escaped, like the text content, while URLs and the other structural
\* attribute values stand as given.
C17_AliasEscaped ==
    BuildReturned =>
        /\ AudioAndBookmarkAsGiven
        /\ \A e \in EntriesOf("sub") :
               Occurrences(out.val, SubWith(escapeXml(e.alias), escapeXml(e.original))) # {}

\* C17, amended: in the document build() returns the audio fallback text and the text
\* a sub element replaces are escaped, like the text content, while the sub alias, like
\* URLs and the other attribute values, stands as given and is never escaped.
C17_AliasVerbatim ==
    BuildReturned =>
        /\ AudioAndBookmarkAsGiven
        /\ \A e \in EntriesOf("sub") :
               /\ Occurrences(out.val, SubWith(e.alias, escapeXml(e.original))) # {}
               /\ escapeXml(e.alias) # e.alias =>
                      Occurrences(out.val, SubWith(escapeXml(e.alias), escapeXml(e.original)))
                          = {}

\* a document was built from a sub element whose alias holds a "&" and an audio
\* element whose fallback text holds the five reserved characters
C17_Witness ==
    /\ BuildReturned
    /\ \E e \in EntriesOf("sub") : e.alias = X_amp
    /\ \E e \in EntriesOf("audio") : e.fallbackText = Some(T_specials)

\* C18: escapeXml returns a text without any of the five reserved characters as it is;
\* and applied to its own result for a text that holds at least one of them, it returns
\* something else: the first result with each "&" (each the start of an entity) turned
\* into "&amp;".
C18_NotIdempotent ==
    /\ [](out.kind \in {"ok", "twice"} /\ out.op \in {"SSMLElement.escapeXml", "escapeXml"}
             /\ (\A i \in 1..Len(out.arg) : out.arg[i] \notin Reserved)
           => out.val = out.arg)
    /\ [][out.kind = "ok" /\ out'.kind = "twice" =>
              IF \E i \in 1..Len(out.arg) : out.arg[i] \in Reserved
              THEN /\ out'.val # out.val
                   /\ out'.val = Flatten([i \in 1..Len(out.val) |->
                                              IF out.val[i] = "&"
                                              THEN <<"&", "a", "m", "p", ";">>
                                              ELSE <<out.val[i]>>], 1, Len(out.val))
              ELSE out'.val = out.val]_vars

\* escapeXml was applied twice to a text that holds a "<"
C18_Witness ==
    /\ out.kind = "twice"
    /\ out.arg = <<"a", "<">>
    /\ out.val = <<"a", "&", "a", "m", "p", ";", "l", "t", ";">>

\* C19 as stated: a call of sentence(callback) on the paragraph scope that
\* VoiceBuilder.paragraph hands to its callback does not throw, and it appends an s
\* element to the paragraph, so that the paragraph comes to hold <s>...</s>.
C19_SentenceInParagraph ==
    out.op = "sentence" =>
        /\ out.kind # "throw"
        /\ heap[out.target].content # <<>>
        /\ LET e == heap[out.target].content[Len(heap[out.target].content)]
           IN  e.kind = "ref" /\ heap[e.id].kind = "s"

(***************************************************************************)
(* C20: isValidVolume keeps plain and percent numbers to the range 0..100. *)
(***************************************************************************)
RECURSIVE decimalValue(_)
\* the value of a string of digits
decimalValue(s) ==
    IF s = <<>> THEN 0
    ELSE 10 * decimalValue(dropLast(s, 1))
         + (CHOOSE d \in 0..9 : ToString(d) = s[Len(s)])

\* a number /^\d+(\.\d+)?$/ whose value is at most 100
atMost100(s) ==
    /\ isNumber(s)
    /\ LET k == IF \E i \in 1..Len(s) : s[i] = "."
                THEN CHOOSE i \in 1..Len(s) : s[i] = "."
                ELSE Len(s) + 1
           whole == decimalValue(SubSeq(s, 1, k - 1))
       IN  \/ whole < 100
           \/ whole = 100 /\ \A i \in (k + 1)..Len(s) : s[i] = "0"

\* the values the documentation of isValidVolume lists as valid
volumeAsDocumented(value) ==
    \/ endsWith(value, S_dB) /\ isSignedNumber(dropLast(value, 2))
    \/ atMost100(value)
    \/ endsWith(value, <<"%">>) /\ atMost100(dropLast(value, 1))
    \/ value \in {S_silent, S_xsoft, S_soft, S_medium, S_loud, S_xloud}

\* C20: isValidVolume returns true exactly for a plain or percent number between
\* 0 and 100, a signed decibel value ending in dB, or one of the six named levels;
\* '150%' is rejected.
C20_VolumeRange ==
    (out.op = "isValidVolume" /\ out.kind = "ok") =>
        (out.val <=> volumeAsDocumented(out.arg))

(***************************************************************************)
(* C21: the time written in a break never exceeds 20000ms.                 *)
(***************************************************************************)
\* a number /^\d+(\.\d+)?$/ whose value is greater than n
numberOver(s, n) ==
    LET k == IF \E i \in 1..Len(s) : s[i] = "."
             THEN CHOOSE i \in 1..Len(s) : s[i] = "."
             ELSE Len(s) + 1
        whole == decimalValue(SubSeq(s, 1, k - 1))
    IN  \/ whole > n
        \/ whole = n /\ \E i \in (k + 1)..Len(s) : s[i] # "0"

\* a duration in seconds or milliseconds that is longer than 20000ms
over20000ms(t) ==
    \/ endsWith(t, S_ms) /\ isNumber(dropLast(t, 2)) /\ numberOver(dropLast(t, 2), 20000)
    \/ endsWith(t, <<"s">>) /\ isNumber(dropLast(t, 1)) /\ numberOver(dropLast(t, 1), 20)

\* the values of the time attributes of the tags of a rendered string
TimesWritten(x) ==
    LET sk == Skeleton(x)
    IN  UNION {{AttrPairs(SubSeq(x, sk[k].from, sk[k].to))[j][2] :
                   j \in {j \in 1..Len(AttrPairs(SubSeq(x, sk[k].from, sk[k].to))) :
                            AttrPairs(SubSeq(x, sk[k].from, sk[k].to))[j][1]
                                = <<"t", "i", "m", "e">>}} :
               k \in {k \in 1..Len(sk) : sk[k].name = <<"b", "r", "e", "a", "k">>}}

\* C21: whatever time a break was given, through the constructor or through break(),
\* the time written in the rendered break element is at most 20000ms.
C21_TimeCapped ==
    (out.op = "render" /\ out.kind = "ok") =>
        \A t \in TimesWritten(out.val) : ~over20000ms(t)

(***************************************************************************)
(* C22: voice() on a sub-builder that has a root.                          *)
(***************************************************************************)
\* the voice elements new are the voice elements old, except that the element of
\* section v holds x as its last content
SectionExtended(old, new, v, x) ==
    /\ Len(new) = Len(old)
    /\ \A k \in 1..Len(elements) :
           new[k] = IF elements[k] = v
                    THEN SubSeq(old[k], 1, Len(old[k]) - Len(L_voiceClose)) \o x \o L_voiceClose
                    ELSE old[k]

\* C22: a step of voice(name, effect) on a sub-builder with a root appends exactly one
\* section to the root's list and returns a new, empty builder that is not the receiver
\* and has the root as its parent; the receiver and every other builder are as before
\* and keep their positions; and a later text() on any registered builder, a receiver
\* of voice() included, extends that builder's own voice element and no other.
C22_SwitchVoice ==
    /\ [][\A v \in Objs, a \in VoiceArgs :
              (VoiceBuilder_voice(v, a) /\ heap[v].parent) =>
                  /\ out'.kind = "ok" /\ out'.op = "voice" /\ out'.target = v
                  /\ out'.ret # v /\ out'.ret \notin Registered
                  /\ elements' = Append(elements, out'.ret)
                  /\ Len(heap') = Len(heap) + 1
                  /\ heap'[out'.ret] = VoiceBuilder(a, TRUE)
                  /\ \A i \in 1..Len(heap) : heap'[i] = heap[i]]_vars
    /\ [][\A v \in Objs, t \in Texts :
              (VoiceBuilder_text(v, t) /\ v \in Registered) =>
                  /\ elements' = elements
                  /\ \A before \in {RootDocument},
                        after \in {SSMLBuilder_build_result(options', _backgroundAudio',
                                                            _voiceConversion', elements',
                                                            heap')} :
                         \A old \in {VoiceElements(before)}, new \in {VoiceElements(after)} :
                             SectionExtended(old, new, v, escapeXml(t))]_vars

\* voice() on the first section's builder, which has content, has returned the builder
\* of a second section
C22_Witness ==
    /\ out.op = "voice" /\ out.kind = "ok"
    /\ out.target = 1 /\ out.ret = 2
    /\ elements = <<1, 2>>
    /\ heap[1].content # <<>>

(***************************************************************************)
(* C23: the callbacks of paragraph(), sentence() and lang().               *)
(***************************************************************************)
\* the content lists that hold a reference to object x, as (owner, position) pairs
HoldersOf(h, x) ==
    {<<i, k>> \in (1..Len(h)) \X (1..MaxEntries + 1) :
        k <= Len(h[i].content) /\ h[i].content[k] = Ref(x)}

Cyclic(h, x) == \E y \in Subtree(h, x) : y \in Closure(h, Children(h, y), Len(h))

\* C24 as stated: no render() and no build() of the root has a recursion without end,
\* whatever structure addElement assembled.
C24_AlwaysTerminates == out.op \in {"render", "build"} => out.kind # "overflow"

\* C24 as amended: render() returns a string exactly when no object it renders is held
\* by itself or by one of its descendants, and build() of the root exactly when that
\* is so for every section; an element held several times does not stop either.
C24_TerminatesUnlessCyclic ==
    /\ out.op = "render" =>
           /\ out.kind \in {"ok", "overflow"}
           /\ out.kind = "overflow" <=> Cyclic(heap, out.target)
    /\ (out.op = "build" /\ out.target = 0) =>
           /\ out.kind \in {"ok", "overflow"}
           /\ out.kind = "overflow" <=> \E k \in 1..Len(elements) : Cyclic(heap, elements[k])

\* render() was called on a container that holds an element whose content holds the
\* container
C24_Witness ==
    /\ out.op = "render" /\ out.kind = "overflow"
    /\ \E y \in Objs \ {out.target} :
           y \in Children(heap, out.target) /\ out.target \in Children(heap, y)

(***************************************************************************)
(* C25: entries a callback appends to the enclosing voice.                 *)
(***************************************************************************)
\* C25: a voice renders its entries in the order of the appends to its list, also while
\* callbacks run; an entry that a callback appends to the enclosing voice goes to the
\* end of the voice's list while the nested element is in no list yet; and the return
\* of paragraph, sentence or lang puts the nested element's markup at the end of the
\* voice element, after every entry the callback appended to the voice.
C25_VoiceEntriesFirst ==
    /\ [](\A v \in Voices :
             /\ heap[v].content = appended[v]
             /\ (out.op = "render" /\ out.kind = "ok" /\ out.target = v) =>
                    out.val = OpenTag(heap[v]) \o InOrder(heap, appended[v], 1) \o L_voiceClose)
    /\ [][\A v \in Objs : \A e \in {TextEntry(t) : t \in Texts}
                                  \cup {breakElementOf(b) : b \in BreakArgs} :
              (appendTo(v, e) /\ v \in Voices /\ \E k \in 1..Len(stack) : stack[k].owner = v) =>
                  /\ heap'[v].content = Append(heap[v].content, e)
                  /\ \A k \in 1..Len(stack) :
                         stack[k].owner = v =>
                             \A j \in 1..Len(heap'[v].content) :
                                 heap'[v].content[j] # Ref(stack[k].elem)]_vars
    /\ [][callback_return =>
              LET f == stack[Len(stack)]
              IN  \A before \in {render(heap, Ref(f.owner))},
                     nested \in {render(heap, Ref(f.elem))} :
                      \A after \in {render(heap', Ref(f.owner))} :
                          after = SubSeq(before, 1, Len(before) - Len(L_voiceClose))
                                      \o nested \o L_voiceClose]_vars

\* the voice was rendered after a callback that appended a text to the voice returned:
\* the text comes first, the nested element last
C25_Witness ==
    /\ out.op = "render" /\ out.kind = "ok" /\ out.target \in Voices
    /\ stack = <<>>
    /\ Len(heap[out.target].content) = 2
    /\ heap[out.target].content[1].kind = "text"
    /\ heap[out.target].content[2].kind = "ref"

(***************************************************************************)
(* C26: a callback of paragraph(), sentence() or lang() that throws.       *)
(***************************************************************************)
\* C26 as stated, for a voice whose list changes only while one of its callbacks runs
\* and whose callbacks all throw: if every call that threw left the list as it was
\* before the call, the list is empty whenever no callback is running.
C26_ListAsBeforeTheCall ==
    stack = <<>> => \A v \in Voices : heap[v].content = <<>>

\* C26 as amended: the throw of a callback is passed on as the throw of the method that
\* ran it and changes no list; the nested element, filled or not, is in no list then or
\* later; and a later build() holds no paragraph, sentence or lang element, and in the
\* voice element exactly what was appended to the voice itself, by a callback that
\* threw included.
C26_NestedElementDropped ==
    /\ [][callback_throw =>
              /\ out'.kind = "throw" /\ out'.target = stack[Len(stack)].owner
              /\ out'.op \in {"paragraph", "sentence", "lang"}
              /\ heap' = heap
              /\ stack' = SubSeq(stack, 1, Len(stack) - 1)]_vars
    /\ [](\A x \in Objs \ Voices : HoldersOf(heap, x) = {})
    /\ [](BuildReturned =>
             /\ \A tag \in {L_pOpen, L_sOpen, L_langOpen} : Occurrences(out.val, tag) = {}
             /\ \A k \in 1..Len(elements) :
                    VoiceElements(out.val)[k] =
                        OpenTag(heap[elements[k]])
                            \o InOrder(heap, appended[elements[k]], 1) \o L_voiceClose)

\* build() returned after a callback that had appended to its scope threw
C26_Witness ==
    /\ BuildReturned /\ stack = <<>>
    /\ \E x \in Objs \ Voices : heap[x].content # <<>>

(***************************************************************************)
(* C27: what an append leaves as it was.                                   *)
(***************************************************************************)
\* the objects whose content list a step changes
Modified(h, h2) == {i \in 1..Len(h) : h2[i].content # h[i].content}

\* the rendered segments of all objects of heap h
Segments(h) == [i \in 1..Len(h) |-> render(h, Ref(i))]

\* C27 as stated: an append changes the rendered segment of at most one section, the
\* one that was modified or that the modified container is nested in; every other
\* section is rendered as before.
C27_OtherSectionsAsBefore ==
    [][\A before \in {Segments(heap)} : \A after \in {Segments(heap')} :
           Cardinality({k \in 1..Len(elements) :
                           after[elements[k]] # before[elements[k]]}) <= 1]_vars

\* C27 as amended: a step that appends to a container changes that container's list
\* alone, and the rendered segment of every section and every container that does not
\* hold the modified one, directly or through other containers, is the same as before;
\* every object that does hold it, in whatever section, renders the new entry.
C27_OnlyHoldersChange ==
    [][\A before \in {Segments(heap)} : \A after \in {Segments(heap')} :
           \A changed \in {Modified(heap, heap')} :
               /\ Cardinality(changed) <= 1
               /\ Len(heap') = Len(heap)
               /\ \A i \in Objs :
                      (after[i] # before[i]) <=> (changed \cap Subtree(heap, i) # {})]_vars

\* a text was appended to the paragraph that both sections hold
C27_Witness ==
    /\ heap[3].content # <<>>
    /\ 3 \in Subtree(heap, 1) /\ 3 \in Subtree(heap, 2)
    /\ out.op = "none"

(***************************************************************************)
(* C28.  An optional value given as the empty string is rendered as if it  *)
(* were absent, and a required value that is empty is still written.       *)
(***************************************************************************)
\* sub occurs in s
Within(sub, s) == \E i \in 0..(Len(s) - Len(sub)) : SubSeq(s, i + 1, i + Len(sub)) = sub

\* an optional value, taken as absent when it is the empty string
Blank(o) == IF o = Some(<<>>) THEN None ELSE o

\* the element e built without the optional values that are the empty string
withoutBlanks(e) ==
    CASE e.kind = "break" ->
             IF e.options = None THEN e
             ELSE BreakElement(Some([strength |-> Blank(e.options[1].strength),
                                     time |-> Blank(e.options[1].time)]))
      [] e.kind = "emphasis" -> EmphasisElement(e.text, Blank(e.level))
      [] e.kind = "audio" -> AudioElement(e.src, Blank(e.fallbackText))
      [] e.kind = "prosody" ->
             ProsodyElement(e.text, SelectSeq(e.options, LAMBDA p : p[2] # <<>>))
      [] e.kind = "sayAs" ->
             SayAsElement(e.text, [interpretAs |-> e.options.interpretAs,
                                   format |-> Blank(e.options.format),
                                   detail |-> Blank(e.options.detail)])
      [] e.kind = "expressAs" ->
             ExpressAsElement(e.text, [style |-> e.options.style,
                                       styledegree |-> Blank(e.options.styledegree),
                                       role |-> Blank(e.options.role)])
      [] OTHER -> e

\* the objects of h built without the optional values that are the empty string
heapWithoutBlanks(h) ==
    [i \in DOMAIN h |->
        [h[i] EXCEPT !.effect = Blank(h[i].effect),
                     !.content = [j \in DOMAIN h[i].content |->
                                     withoutBlanks(h[i].content[j])]]]

\* the background audio options without the optional values that are the empty string
bgWithoutBlanks(bg) ==
    IF bg = None THEN None
    ELSE Some([src |-> bg[1].src, volume |-> Blank(bg[1].volume),
               fadein |-> Blank(bg[1].fadein), fadeout |-> Blank(bg[1].fadeout)])

\* the attributes a caller may leave out
OptionalAttrs ==
    {L_effectAttr, L_strengthAttr, L_timeAttr, L_levelAttr, L_pitchAttr, L_contourAttr,
     L_rangeAttr, L_rateAttr, L_volumeAttr, L_formatAttr, L_detailAttr, L_styledegreeAttr,
     L_roleAttr, L_fadeinAttr, L_fadeoutAttr}

\* what the claim says of the string xml that rendering voice section v returned
BlanksOf(v, xml) ==
    /\ \A a \in OptionalAttrs : ~Within(attr(a, <<>>), xml)
    /\ Within(L_voiceOpen \o attr(L_nameAttr, heap[v].name), xml)
    /\ ~Truthy(heap[v].effect) => ~Within(L_effectAttr, xml)
    /\ \A j \in DOMAIN heap[v].content :
          LET e == heap[v].content[j] IN
          /\ (e.kind = "break" /\ e.options = Some([strength |-> None, time |-> Some(<<>>)]))
                => Within(L_breakBare, xml)
          /\ (e.kind = "audio" /\ e.fallbackText = Some(<<>>))
                => Within(L_audioOpen \o e.src \o L_quoteGt \o L_audioClose, xml)
          /\ e.kind = "sayAs"
                => Within(L_sayAsOpen \o attr(L_interpretAsAttr, e.options.interpretAs), xml)
          /\ e.kind = "expressAs"
                => Within(L_expressAsOpen \o attr(L_styleAttr, e.options.style), xml)
    /\ (\A j \in DOMAIN heap[v].content :
           heap[v].content[j].kind = "emphasis" => heap[v].content[j].level = Some(<<>>))
          => ~Within(L_levelAttr, xml)

\* C28: what render() of a voice section and build() return is what they return for the
\* same calls with every optional '' left out: break('') is '<break/>', no effect, level,
\* or other optional attribute is written for '', audio(src, '') has an empty body, and
\* the required name, src, interpret-as and style are written even when they are ''
C28_BlankIsAbsent ==
    /\ (out.kind = "ok" /\ out.op = "render" /\ out.target \in Voices)
          => /\ out.val = render(heapWithoutBlanks(heap), Ref(out.target))
             /\ BlanksOf(out.target, out.val)
    /\ (out.kind = "ok" /\ out.op = "build")
          => /\ out.val = SSMLBuilder_build_result(options, bgWithoutBlanks(_backgroundAudio),
                                                   _voiceConversion, elements,
                                                   heapWithoutBlanks(heap))
             /\ \A k \in DOMAIN elements : BlanksOf(elements[k], out.val)
             /\ _backgroundAudio # None
                   => Within(L_bgOpen \o attr(L_srcAttr, _backgroundAudio[1].src), out.val)

\* build() returned a document with background audio whose src and volume are '', for a
\* section whose name and effect are '' and that holds a break('') and an emphasis with
\* level ''
C28_Witness ==
    /\ out.kind = "ok" /\ out.op = "build"
    /\ _backgroundAudio # None /\ _backgroundAudio[1].src = <<>>
    /\ _backgroundAudio[1].volume = Some(<<>>)
    /\ Len(elements) = 1
    /\ heap[elements[1]].name = <<>> /\ heap[elements[1]].effect = Some(<<>>)
    /\ heap[elements[1]].content =
           <<BreakElement(Some([strength |-> None, time |-> Some(<<>>)])),
             EmphasisElement(T_plain, Some(<<>>))>>

=========================================================================
